---- MODULE Spec2Model ----
(***************************************************************************)
(* A model of the 6502 core of miaht94/nes-emulator: the address-decoded   *)
(* bus (src/src/bus.rs) and the interpreter (src/src/cpu.rs).              *)
(*                                                                         *)
(* Bytes are 0..255, addresses 0..65535; every u8/u16 operation of the     *)
(* source keeps its width.  A Rust panic (todo!(), expect(), an overflow   *)
(* check of a debug build) is the outcome "panic" of the operation.        *)
(***************************************************************************)
EXTENDS Integers, Sequences, FiniteSets, TLC

VARIABLES
    program_counter,   \* Cpu.program_counter : u16
    register_a,        \* Cpu.register_a : u8
    register_x,        \* Cpu.register_x : u8
    register_y,        \* Cpu.register_y : u8
    stack_pointer,     \* Cpu.stack_pointer : u8
    flags,             \* Cpu.flags : CpuFlags (its bits, a u8)
    cpu_vram,          \* Cpu.bus.cpu_vram : [u8; 0x800]
    overflow_checks,   \* the build: TRUE when `+` on integers panics on overflow
    status,            \* "ready" | "running" | "returned" | "panicked"
    setup,             \* history: what the caller has set since Cpu::new
    entry,             \* history: the program loaded and how the run was entered
    last,              \* history: the operation that produced this state
    nops,              \* history: operations the caller has performed
    steps              \* history: turns of the loop of the run in progress

vars == <<program_counter, register_a, register_x, register_y, stack_pointer,
          flags, cpu_vram, overflow_checks, status, setup, entry, last, nops,
          steps>>

cpuvars == <<program_counter, register_a, register_x, register_y,
             stack_pointer, flags>>

(***************************************************************************)
(* Program constants.                                                      *)
(***************************************************************************)
RAM == \h0000
RAM_MIRRORS_END == \h1FFF
PPU_REGISTERS == \h2000
PPU_REGISTERS_MIRRORS_END == \h3FFF
VRAM_SIZE == \h800
STACK == \h100
STACK_RESET == \hFD
PROGRAM_BASE == \h600
RESET_VECTOR == \hFFFC
INIT_FLAGS == \b00100100

CARRY == \b00000001
ZERO == \b00000010
INTERRUPT_DISABLE == \b00000100
DECIMAL_MODE == \b00001000
BREAK == \b00010000
BREAK2 == \b00100000
OVERFLOW == \b01000000
NEGATIVE == \b10000000

U8 == \h100
U16 == \h10000

Byte == 0 .. 255

(***************************************************************************)
(* Bit operations on u8 values.                                            *)
(***************************************************************************)
Bit(v, i) == (v \div (2 ^ i)) % 2

BitAnd(a, b) ==
    LET t(i) == (2 ^ i) * (Bit(a, i) * Bit(b, i))
    IN  t(0) + t(1) + t(2) + t(3) + t(4) + t(5) + t(6) + t(7)

BitOr(a, b) ==
    LET t(i) == (2 ^ i) * (IF Bit(a, i) + Bit(b, i) > 0 THEN 1 ELSE 0)
    IN  t(0) + t(1) + t(2) + t(3) + t(4) + t(5) + t(6) + t(7)

BitXor(a, b) ==
    LET t(i) == (2 ^ i) * ((Bit(a, i) + Bit(b, i)) % 2)
    IN  t(0) + t(1) + t(2) + t(3) + t(4) + t(5) + t(6) + t(7)

\* CpuFlags::contains / insert / remove for a single-bit flag f.
contains(p, f) == (p \div f) % 2 = 1

insert(p, f) == IF contains(p, f) THEN p ELSE p + f

remove(p, f) == IF contains(p, f) THEN p - f ELSE p

\* `a + b` on u16: wraps in a release build, panics in a build with overflow checks.
AddU16(a, b) ==
    [v |-> (a + b) % U16, panic |-> overflow_checks /\ a + b >= U16]

\* u16::wrapping_add
wrapping_add_u16(a, b) == (a + b) % U16

\* u8::wrapping_add / u8::wrapping_sub
wrapping_add(a, b) == (a + b) % U8

wrapping_sub(a, b) == (a - b + U8) % U8

(***************************************************************************)
(* The bus (bus.rs).                                                       *)
(***************************************************************************)
BusNew == [i \in 0 .. VRAM_SIZE - 1 |-> 0]

\* Option<usize>, or the panic of todo!() in the PPU register range.
get_real_address_no_mirrors(address) ==
    IF address >= RAM /\ address < VRAM_SIZE
        THEN [kind |-> "Some", index |-> address]
    ELSE IF address >= VRAM_SIZE /\ address <= RAM_MIRRORS_END
        THEN [kind |-> "None", index |-> 0]
    ELSE IF address >= PPU_REGISTERS /\ address <= PPU_REGISTERS_MIRRORS_END
        THEN [kind |-> "todo", index |-> 0]
    ELSE [kind |-> "None", index |-> 0]

get_real_address_all_ram(address) ==
    IF address >= PPU_REGISTERS /\ address <= PPU_REGISTERS_MIRRORS_END
        THEN [kind |-> "todo", index |-> 0]
    ELSE [kind |-> "Some", index |-> address % VRAM_SIZE]

get_real_address(address) ==
    IF address >= RAM /\ address <= RAM_MIRRORS_END
        \* address & 0b111_1111_1111
        THEN [kind |-> "Some", index |-> address % VRAM_SIZE]
    ELSE IF address >= PPU_REGISTERS /\ address <= PPU_REGISTERS_MIRRORS_END
        THEN [kind |-> "todo", index |-> 0]
    ELSE [kind |-> "None", index |-> 0]

mem_read(bus, address) ==
    LET real_address == get_real_address(address)
    IN  CASE real_address.kind = "Some" ->
                [v |-> bus[real_address.index], panic |-> FALSE]
          [] real_address.kind = "None" -> [v |-> 0, panic |-> FALSE]
          [] OTHER -> [v |-> 0, panic |-> TRUE]

mem_write(bus, address, value) ==
    LET real_address == get_real_address(address)
    IN  CASE real_address.kind = "Some" ->
                [bus |-> [bus EXCEPT ![real_address.index] = value],
                 panic |-> FALSE]
          [] real_address.kind = "None" -> [bus |-> bus, panic |-> FALSE]
          [] OTHER -> [bus |-> bus, panic |-> TRUE]

mem_read_u16(bus, address) ==
    LET low  == mem_read(bus, address)
        next == AddU16(address, 1)
        high == mem_read(bus, next.v)
    IN  [v |-> high.v * 256 + low.v,
         panic |-> low.panic \/ next.panic \/ high.panic]

mem_write_u16_high_first(bus, address, value) ==
    LET low  == value % 256
        high == value \div 256
        w1   == mem_write(bus, address, high)
        next == AddU16(address, 1)
        w2   == mem_write(w1.bus, next.v, low)
    IN  IF w1.panic THEN [bus |-> bus, panic |-> TRUE]
        ELSE IF next.panic \/ w2.panic THEN [bus |-> w1.bus, panic |-> TRUE]
        ELSE [bus |-> w2.bus, panic |-> FALSE]

mem_write_u16(bus, address, value) ==
    LET low  == value % 256          \* value as u8
        high == value \div 256       \* (value >> 8) as u8
        w1   == mem_write(bus, address, low)
        next == AddU16(address, 1)
        w2   == mem_write(w1.bus, next.v, high)
    IN  IF w1.panic THEN [bus |-> bus, panic |-> TRUE]
        ELSE IF next.panic \/ w2.panic THEN [bus |-> w1.bus, panic |-> TRUE]
        ELSE [bus |-> w2.bus, panic |-> FALSE]

(***************************************************************************)
(* The interpreter's state as a value: the operations below take the Cpu   *)
(* (`self`) and return it changed.  `panic` is set once an operation has   *)
(* panicked; what it had changed until then is kept.                       *)
(***************************************************************************)
Self ==
    [program_counter |-> program_counter, register_a |-> register_a,
     register_x |-> register_x, register_y |-> register_y,
     stack_pointer |-> stack_pointer, flags |-> flags, bus |-> cpu_vram,
     panic |-> FALSE]

unwind(s) == [s EXCEPT !.panic = TRUE]

\* self.bus.mem_write(address, value)
bus_write(s, address, value) ==
    LET w == mem_write(s.bus, address, value)
    IN  [s EXCEPT !.bus = w.bus, !.panic = s.panic \/ w.panic]

\* `if cond { self.flags.insert(f) } else { self.flags.remove(f) }`
set_flag(p, f, cond) == IF cond THEN insert(p, f) ELSE remove(p, f)

update_zero_and_negative_flags_zero_only(s, result) ==
    [s EXCEPT !.flags = set_flag(@, ZERO, result = 0)]

update_zero_and_negative_flags(s, result) ==
    [s EXCEPT !.flags =
        set_flag(set_flag(@, ZERO, result = 0), NEGATIVE, result \div 128 = 1)]

set_register_a(s, value) ==
    update_zero_and_negative_flags([s EXCEPT !.register_a = value], value)

\* calculate_address with a ZeroPageX sum that runs on into page one
calculate_address_zero_page_x_unwrapped(s, address_mode) ==
    LET pc == s.program_counter
    IN  CASE address_mode = "Immediate" -> [v |-> pc, panic |-> FALSE]
          [] address_mode = "Absolute" -> mem_read_u16(s.bus, pc)
          [] address_mode = "AbsoluteX" ->
                LET base == mem_read_u16(s.bus, pc)
                IN  [v |-> wrapping_add_u16(base.v, s.register_x),
                     panic |-> base.panic]
          [] address_mode = "AbsoluteY" ->
                LET base == mem_read_u16(s.bus, pc)
                IN  [v |-> wrapping_add_u16(base.v, s.register_y),
                     panic |-> base.panic]
          [] address_mode = "ZeroPage" -> mem_read(s.bus, pc)
          [] address_mode = "ZeroPageX" ->
                LET base == mem_read(s.bus, pc)
                IN  [v |-> base.v + s.register_x, panic |-> base.panic]
          [] address_mode = "ZeroPageY" ->
                LET base == mem_read(s.bus, pc)
                IN  [v |-> wrapping_add(base.v, s.register_y),
                     panic |-> base.panic]
          [] address_mode = "IndirectX" ->
                LET base == mem_read(s.bus, pc)
                    ptr  == wrapping_add(base.v, s.register_x)
                    lo   == mem_read(s.bus, ptr)
                    hi   == mem_read(s.bus, wrapping_add(ptr, 1))
                IN  [v |-> hi.v * 256 + lo.v,
                     panic |-> base.panic \/ lo.panic \/ hi.panic]
          [] address_mode = "IndirectY" ->
                LET base == mem_read(s.bus, pc)
                    lo   == mem_read(s.bus, base.v)
                    hi   == mem_read(s.bus, wrapping_add(base.v, 1))
                IN  [v |-> wrapping_add_u16(hi.v * 256 + lo.v, s.register_y),
                     panic |-> base.panic \/ lo.panic \/ hi.panic]
          [] OTHER -> [v |-> 0, panic |-> TRUE]   \* NoneAddressing: panic!

calculate_address(s, address_mode) ==
    LET pc == s.program_counter
    IN  CASE address_mode = "Immediate" -> [v |-> pc, panic |-> FALSE]
          [] address_mode = "Absolute" -> mem_read_u16(s.bus, pc)
          [] address_mode = "AbsoluteX" ->
                LET base == mem_read_u16(s.bus, pc)
                IN  [v |-> wrapping_add_u16(base.v, s.register_x),
                     panic |-> base.panic]
          [] address_mode = "AbsoluteY" ->
                LET base == mem_read_u16(s.bus, pc)
                IN  [v |-> wrapping_add_u16(base.v, s.register_y),
                     panic |-> base.panic]
          [] address_mode = "ZeroPage" -> mem_read(s.bus, pc)
          [] address_mode = "ZeroPageX" ->
                LET base == mem_read(s.bus, pc)
                IN  [v |-> wrapping_add(base.v, s.register_x),
                     panic |-> base.panic]
          [] address_mode = "ZeroPageY" ->
                LET base == mem_read(s.bus, pc)
                IN  [v |-> wrapping_add(base.v, s.register_y),
                     panic |-> base.panic]
          [] address_mode = "IndirectX" ->
                LET base == mem_read(s.bus, pc)
                    ptr  == wrapping_add(base.v, s.register_x)
                    lo   == mem_read(s.bus, ptr)
                    hi   == mem_read(s.bus, wrapping_add(ptr, 1))
                IN  [v |-> hi.v * 256 + lo.v,
                     panic |-> base.panic \/ lo.panic \/ hi.panic]
          [] address_mode = "IndirectY" ->
                LET base == mem_read(s.bus, pc)
                    lo   == mem_read(s.bus, base.v)
                    hi   == mem_read(s.bus, wrapping_add(base.v, 1))
                IN  [v |-> wrapping_add_u16(hi.v * 256 + lo.v, s.register_y),
                     panic |-> base.panic \/ lo.panic \/ hi.panic]
          [] OTHER -> [v |-> 0, panic |-> TRUE]   \* NoneAddressing: panic!

\* self.bus.mem_read(addr), addr the result of calculate_address
read_operand(bus, addr) ==
    [addr |-> addr.v, v |-> mem_read(bus, addr.v).v,
     panic |-> addr.panic \/ mem_read(bus, addr.v).panic]

\* self.bus.mem_read(self.calculate_address(address_mode)): the address, the
\* byte read there, and whether either panicked
operand(s, address_mode) ==
    read_operand(s.bus, calculate_address(s, address_mode))

stack_pop(s) ==
    LET sp == wrapping_add(s.stack_pointer, 1)
        rd == mem_read(s.bus, STACK + sp)
    IN  [s |-> [s EXCEPT !.stack_pointer = sp, !.panic = s.panic \/ rd.panic],
         v |-> rd.v]

stack_push_decrement_first(s, data) ==
    LET sp == wrapping_sub(s.stack_pointer, 1)
        w  == bus_write(s, STACK + sp, data)
    IN  IF w.panic THEN w ELSE [w EXCEPT !.stack_pointer = sp]

stack_push(s, data) ==
    LET w == bus_write(s, STACK + s.stack_pointer, data)
    IN  IF w.panic THEN w
        ELSE [w EXCEPT !.stack_pointer = wrapping_sub(s.stack_pointer, 1)]

stack_push_u16(s, data) ==
    LET hi == data \div 256
        lo == data % 256
        s1 == stack_push(s, hi)
    IN  IF s1.panic THEN s1 ELSE stack_push(s1, lo)

stack_pop_u16(s) ==
    LET lo == stack_pop(s)
        hi == stack_pop(lo.s)
    IN  IF lo.s.panic THEN [s |-> lo.s, v |-> 0]
        ELSE [s |-> hi.s, v |-> hi.v * 256 + lo.v]

\* In compare and in the instructions below, `param` (add_param, m, data..)
\* is operand(s, address_mode), which the source reads first.
\* compare that sets the carry only when the register is greater
compare_strict(s, param, to_value) ==
    IF param.panic THEN unwind(s)
    ELSE update_zero_and_negative_flags(
            [s EXCEPT !.flags = set_flag(@, CARRY, param.v < to_value)],
            wrapping_sub(to_value, param.v))

compare(s, param, to_value) ==
    IF param.panic THEN unwind(s)
    ELSE update_zero_and_negative_flags(
            [s EXCEPT !.flags = set_flag(@, CARRY, param.v <= to_value)],
            wrapping_sub(to_value, param.v))

\* The only callback the repository passes (load_and_run): |arg| {}
callback(s) == s

(***************************************************************************)
(* Casts between u8, i8 and u16.                                           *)
(***************************************************************************)
\* `v as i8`
as_i8(v) == IF v >= 128 THEN v - 256 ELSE v

\* the value of an integer wrapped into i8
wrap_i8(n) == as_i8((n + 256) % 256)

\* i8::wrapping_neg / i8::wrapping_sub
wrapping_neg_i8(n) == wrap_i8(0 - n)

wrapping_sub_i8(n, k) == wrap_i8(n - k)

\* `n as u8` and `n as u16` of an i8 (sign extension)
i8_as_u8(n) == (n + 256) % 256

i8_as_u16(n) == (n + U16) % U16

(***************************************************************************)
(* The instructions (impl Cpu, cpu.rs 475-927).                            *)
(***************************************************************************)
\* add_to_register_a without the carry going in
add_to_register_a_no_carry_in(s, data) ==
    LET sum    == s.register_a + data
        carry  == sum > \hff
        result == sum % 256
        f1     == set_flag(s.flags, CARRY, carry)
        f2     == set_flag(f1, OVERFLOW,
                    BitAnd(BitAnd(BitXor(data, result),
                                  BitXor(result, s.register_a)), \h80) # 0)
    IN  set_register_a([s EXCEPT !.flags = f2], result)

add_to_register_a(s, data) ==
    LET sum    == s.register_a + data
                    + (IF contains(s.flags, CARRY) THEN 1 ELSE 0)
        carry  == sum > \hff
        result == sum % 256
        f1     == set_flag(s.flags, CARRY, carry)
        f2     == set_flag(f1, OVERFLOW,
                    BitAnd(BitAnd(BitXor(data, result),
                                  BitXor(result, s.register_a)), \h80) # 0)
    IN  set_register_a([s EXCEPT !.flags = f2], result)

adc(s, add_param) ==
    IF add_param.panic THEN unwind(s)
        ELSE add_to_register_a(s, add_param.v)

and(s, and_param) ==
    IF and_param.panic THEN unwind(s)
        ELSE set_register_a(s, BitAnd(s.register_a, and_param.v))

asl_accumulator(s) ==
    LET data == s.register_a
    IN  set_register_a([s EXCEPT !.flags = set_flag(@, CARRY, data \div 128 = 1)],
                       (data * 2) % 256)

asl(s, m) ==
    LET data == (m.v * 2) % 256
        s1   == [s EXCEPT !.flags = set_flag(@, CARRY, m.v \div 128 = 1)]
        s2   == bus_write(s1, m.addr, data)
    IN  IF m.panic THEN unwind(s)
        ELSE IF s2.panic THEN s2
        ELSE update_zero_and_negative_flags(s2, data)

\* beq, bne, bcs, bcc, bmi, bpl, bvs, bvc: `taken` is the flag test
branch(s, taken) ==
    LET rd    == mem_read(s.bus, s.program_counter)
        param == as_i8(rd.v)
    IN  IF rd.panic THEN unwind(s)
        ELSE IF taken
            THEN [s EXCEPT !.program_counter =
                    wrapping_add_u16(wrapping_add_u16(@, 1), i8_as_u16(param))]
        ELSE s

beq(s) == branch(s, contains(s.flags, ZERO))

bcc(s) == branch(s, ~contains(s.flags, CARRY))

bcs(s) == branch(s, contains(s.flags, CARRY))

bmi(s) == branch(s, contains(s.flags, NEGATIVE))

bne(s) == branch(s, ~contains(s.flags, ZERO))

bpl(s) == branch(s, ~contains(s.flags, NEGATIVE))

bvc(s) == branch(s, ~contains(s.flags, OVERFLOW))

bvs(s) == branch(s, contains(s.flags, OVERFLOW))

bit(s, param) ==
    LET result == BitAnd(param.v, s.register_a)
        f1     == set_flag(s.flags, ZERO, result = 0)
        f2     == IF BitAnd(result, \h40) = \h40 THEN insert(f1, OVERFLOW) ELSE f1
        f3     == IF BitAnd(result, \h80) = \h80 THEN insert(f2, NEGATIVE) ELSE f2
    IN  IF param.panic THEN unwind(s) ELSE [s EXCEPT !.flags = f3]

clc(s) == [s EXCEPT !.flags = remove(@, CARRY)]

cld(s) == [s EXCEPT !.flags = remove(@, DECIMAL_MODE)]

cli(s) == [s EXCEPT !.flags = remove(@, INTERRUPT_DISABLE)]

clv(s) == [s EXCEPT !.flags = remove(@, OVERFLOW)]

dec(s, m) ==
    LET result == wrapping_sub(m.v, 1)
        s1     == bus_write(s, m.addr, result)
    IN  IF m.panic THEN unwind(s)
        ELSE IF s1.panic THEN s1
        ELSE update_zero_and_negative_flags(s1, result)

dex(s) ==
    LET result == wrapping_sub(s.register_x, 1)
    IN  update_zero_and_negative_flags([s EXCEPT !.register_x = result], result)

dey(s) ==
    LET result == wrapping_sub(s.register_y, 1)
    IN  update_zero_and_negative_flags([s EXCEPT !.register_y = result], result)

eor(s, param) ==
    IF param.panic THEN unwind(s)
        ELSE set_register_a(s, BitXor(s.register_a, param.v))

inc(s, m) ==
    LET result == wrapping_add(m.v, 1)
        s1     == bus_write(s, m.addr, result)
    IN  IF m.panic THEN unwind(s)
        ELSE IF s1.panic THEN s1
        ELSE update_zero_and_negative_flags(s1, result)

\* inx that stops at 0xFF instead of wrapping to 0x00
inx_saturating(s) ==
    LET result == IF s.register_x = \hFF THEN \hFF ELSE s.register_x + 1
    IN  update_zero_and_negative_flags([s EXCEPT !.register_x = result], result)

inx(s) ==
    LET result == wrapping_add(s.register_x, 1)
    IN  update_zero_and_negative_flags([s EXCEPT !.register_x = result], result)

iny(s) ==
    LET result == wrapping_add(s.register_y, 1)
    IN  update_zero_and_negative_flags([s EXCEPT !.register_y = result], result)

lda(s, param) ==
    IF param.panic THEN unwind(s) ELSE set_register_a(s, param.v)

ldx(s, param) ==
    IF param.panic THEN unwind(s)
        ELSE update_zero_and_negative_flags(
                [s EXCEPT !.register_x = param.v], param.v)

ldy(s, param) ==
    IF param.panic THEN unwind(s)
        ELSE update_zero_and_negative_flags(
                [s EXCEPT !.register_y = param.v], param.v)

lsr_accumulator(s) ==
    LET m == s.register_a
    IN  set_register_a([s EXCEPT !.flags = set_flag(@, CARRY, m % 2 = 1)],
                       m \div 2)

lsr(s, m) ==
    LET s1   == [s EXCEPT !.flags = set_flag(@, CARRY, m.v % 2 = 1)]
        s2   == bus_write(s1, m.addr, m.v \div 2)
        data == m.v \div 2
    IN  IF m.panic THEN unwind(s)
        ELSE IF s2.panic THEN s2
        ELSE update_zero_and_negative_flags(s2, data)

ora(s, param) ==
    IF param.panic THEN unwind(s)
        ELSE set_register_a(s, BitOr(s.register_a, param.v))

pha(s) == stack_push(s, s.register_a)

php(s) == stack_push(s, insert(insert(s.flags, BREAK), BREAK2))

pla(s) ==
    LET data == stack_pop(s)
    IN  IF data.s.panic THEN data.s ELSE set_register_a(data.s, data.v)

\* plp that takes the popped byte as it is
plp_raw(s) ==
    LET data == stack_pop(s)
    IN  IF data.s.panic THEN data.s
        ELSE [data.s EXCEPT !.flags = data.v]

plp(s) ==
    LET data == stack_pop(s)
    IN  IF data.s.panic THEN data.s
        ELSE [data.s EXCEPT !.flags = insert(remove(data.v, BREAK), BREAK2)]

rol(s, param) ==
    LET old_carry == contains(s.flags, CARRY)
        result    == IF old_carry THEN ((param.v * 2) % 256) + 1
                     ELSE (param.v * 2) % 256
        s1        == [s EXCEPT !.flags = set_flag(@, CARRY, param.v \div 128 = 1)]
        s2        == bus_write(s1, param.addr, result)
    IN  IF param.panic THEN unwind(s)
        ELSE IF s2.panic THEN s2
        ELSE [s2 EXCEPT !.flags = set_flag(@, NEGATIVE, result \div 128 = 1)]

rol_accumulator(s) ==
    LET param     == s.register_a
        old_carry == contains(s.flags, CARRY)
        result    == IF old_carry THEN ((param * 2) % 256) + 1
                     ELSE (param * 2) % 256
    IN  set_register_a(
            [s EXCEPT !.flags = set_flag(@, CARRY, param \div 128 = 1)], result)

ror(s, param) ==
    LET old_carry == contains(s.flags, CARRY)
        result    == IF old_carry THEN (param.v \div 2) + \h80
                     ELSE param.v \div 2
        s1        == [s EXCEPT !.flags = set_flag(@, CARRY, param.v % 2 = 1)]
        s2        == bus_write(s1, param.addr, result)
    IN  IF param.panic THEN unwind(s)
        ELSE IF s2.panic THEN s2
        ELSE [s2 EXCEPT !.flags = set_flag(@, NEGATIVE, result \div 128 = 1)]

ror_accumulator(s) ==
    LET param     == s.register_a
        old_carry == contains(s.flags, CARRY)
        result    == IF old_carry THEN (param \div 2) + \h80 ELSE param \div 2
    IN  set_register_a(
            [s EXCEPT !.flags = set_flag(@, CARRY, param % 2 = 1)], result)

\* sbc with a negation that saturates: -(-128) = 127
sbc_saturating_neg(s, data) ==
    IF data.panic THEN unwind(s)
        ELSE add_to_register_a(s,
                i8_as_u8(wrapping_sub_i8(
                    IF as_i8(data.v) = -128 THEN 127 ELSE 0 - as_i8(data.v),
                    1)))

sbc_negate_only(s, data) ==
    IF data.panic THEN unwind(s)
        ELSE add_to_register_a(s, i8_as_u8(wrapping_neg_i8(as_i8(data.v))))

sbc(s, data) ==
    IF data.panic THEN unwind(s)
        ELSE add_to_register_a(s,
                i8_as_u8(wrapping_sub_i8(wrapping_neg_i8(as_i8(data.v)), 1)))

sec(s) == [s EXCEPT !.flags = insert(@, CARRY)]

sed(s) == [s EXCEPT !.flags = insert(@, DECIMAL_MODE)]

sei(s) == [s EXCEPT !.flags = insert(@, INTERRUPT_DISABLE)]

\* sta, stx, sty: mem_write(addr, register), addr the result of
\* calculate_address(s, address_mode)
store(s, addr, value) ==
    IF addr.panic THEN unwind(s) ELSE bus_write(s, addr.v, value)

sta(s, addr) == store(s, addr, s.register_a)

stx(s, addr) == store(s, addr, s.register_x)

sty(s, addr) == store(s, addr, s.register_y)

tax(s) ==
    update_zero_and_negative_flags(
        [s EXCEPT !.register_x = s.register_a], s.register_a)

tay(s) ==
    update_zero_and_negative_flags(
        [s EXCEPT !.register_y = s.register_a], s.register_a)

tsx(s) ==
    update_zero_and_negative_flags(
        [s EXCEPT !.register_x = s.stack_pointer], s.stack_pointer)

txa(s) == set_register_a(s, s.register_x)

\* a TXS that updates Z and N as TSX does
txs_updates_flags(s) ==
    update_zero_and_negative_flags(
        [s EXCEPT !.stack_pointer = s.register_x], s.register_x)

txs(s) == [s EXCEPT !.stack_pointer = s.register_x]

tya(s) == set_register_a(s, s.register_y)

(***************************************************************************)
(* The opcode table (crate::opscode::OPCODES_MAP): for every opcode of the *)
(* official 6502 instruction set, its length in bytes and its addressing   *)
(* mode.  Instructions without a memory operand, branches, JMP and JSR     *)
(* carry NoneAddressing.                                                   *)
(***************************************************************************)
ImmediateOps ==
    {\h69, \h29, \hC9, \hE0, \hC0, \h49, \hA9, \hA2, \hA0, \h09, \hE9}

ZeroPageOps ==
    {\h65, \h25, \h06, \h24, \hC5, \hE4, \hC4, \hC6, \h45, \hE6, \hA5,
     \hA6, \hA4, \h46, \h05, \h26, \h66, \hE5, \h85, \h86, \h84}

ZeroPageXOps ==
    {\h75, \h35, \h16, \hD5, \hD6, \h55, \hF6, \hB5, \hB4, \h56, \h15,
     \h36, \h76, \hF5, \h95, \h94}

ZeroPageYOps == {\hB6, \h96}

AbsoluteOps ==
    {\h6D, \h2D, \h0E, \h2C, \hCD, \hEC, \hCC, \hCE, \h4D, \hEE, \hAD,
     \hAE, \hAC, \h4E, \h0D, \h2E, \h6E, \hED, \h8D, \h8E, \h8C}

AbsoluteXOps ==
    {\h7D, \h3D, \h1E, \hDD, \hDE, \h5D, \hFE, \hBD, \hBC, \h5E, \h1D,
     \h3E, \h7E, \hFD, \h9D}

AbsoluteYOps == {\h79, \h39, \hD9, \h59, \hB9, \hBE, \h19, \hF9, \h99}

IndirectXOps == {\h61, \h21, \hC1, \h41, \hA1, \h01, \hE1, \h81}

IndirectYOps == {\h71, \h31, \hD1, \h51, \hB1, \h11, \hF1, \h91}

\* BRK NOP, ASL/LSR/ROL/ROR A, flag operations, transfers, stack, INX.., RTI RTS
ImpliedOps ==
    {\h00, \hEA, \h0A, \h4A, \h2A, \h6A, \h18, \h38, \h58, \h78, \hB8,
     \hD8, \hF8, \hAA, \hA8, \hBA, \h8A, \h9A, \h98, \h48, \h68, \h08,
     \h28, \hE8, \hC8, \hCA, \h88, \h40, \h60}

BranchOps == {\hD0, \h70, \h50, \h30, \hF0, \hB0, \h90, \h10}

\* JMP abs, JMP (ind), JSR
JumpOps == {\h4C, \h6C, \h20}

OpcodeMode(code) ==
    CASE code \in ImmediateOps -> "Immediate"
      [] code \in ZeroPageOps -> "ZeroPage"
      [] code \in ZeroPageXOps -> "ZeroPageX"
      [] code \in ZeroPageYOps -> "ZeroPageY"
      [] code \in AbsoluteOps -> "Absolute"
      [] code \in AbsoluteXOps -> "AbsoluteX"
      [] code \in AbsoluteYOps -> "AbsoluteY"
      [] code \in IndirectXOps -> "IndirectX"
      [] code \in IndirectYOps -> "IndirectY"
      [] OTHER -> "NoneAddressing"

OpcodeLen(code) ==
    CASE code \in ImpliedOps -> 1
      [] code \in AbsoluteOps \cup AbsoluteXOps \cup AbsoluteYOps \cup JumpOps -> 3
      [] OTHER -> 2

OPCODES_MAP ==
    [code \in ImmediateOps \cup ZeroPageOps \cup ZeroPageXOps \cup ZeroPageYOps
              \cup AbsoluteOps \cup AbsoluteXOps \cup AbsoluteYOps
              \cup IndirectXOps \cup IndirectYOps \cup ImpliedOps
              \cup BranchOps \cup JumpOps
        |-> [len |-> OpcodeLen(code), mode |-> OpcodeMode(code)]]

(***************************************************************************)
(* run_with_callback: `match code` and one turn of its loop.               *)
(***************************************************************************)
jmp_absolute(s) ==
    LET mem_address == mem_read_u16(s.bus, s.program_counter)
    IN  IF mem_address.panic THEN unwind(s)
        ELSE [s EXCEPT !.program_counter = mem_address.v]

jmp_indirect_next_page(s) ==
    LET mem_address == mem_read_u16(s.bus, s.program_counter)
        whole == mem_read_u16(s.bus, mem_address.v)
    IN  IF mem_address.panic \/ whole.panic THEN unwind(s)
        ELSE [s EXCEPT !.program_counter = whole.v]

jmp_indirect(s) ==
    LET mem_address == mem_read_u16(s.bus, s.program_counter)
        wrapped == mem_address.v % 256 = \hFF    \* mem_address & 0x00FF == 0x00FF
        lo == mem_read(s.bus, mem_address.v)
        hi == mem_read(s.bus, (mem_address.v \div 256) * 256)
        whole == mem_read_u16(s.bus, mem_address.v)
    IN  IF mem_address.panic THEN unwind(s)
        ELSE IF wrapped
            THEN IF lo.panic \/ hi.panic THEN unwind(s)
                 ELSE [s EXCEPT !.program_counter = hi.v * 256 + lo.v]
        ELSE IF whole.panic THEN unwind(s)
        ELSE [s EXCEPT !.program_counter = whole.v]

\* a JSR that pushes the address of the next instruction
jsr_inline_push_next(s) ==
    LET plus2  == AddU16(s.program_counter, 2)
        s1     == stack_push_u16(s, plus2.v)
        target == mem_read_u16(s1.bus, s1.program_counter)
    IN  IF plus2.panic THEN unwind(s)
        ELSE IF s1.panic THEN s1
        ELSE IF target.panic THEN unwind(s1)
        ELSE [s1 EXCEPT !.program_counter = target.v]

jsr_inline(s) ==
    LET plus2  == AddU16(s.program_counter, 2)       \* program_counter + 2 - 1
        s1     == stack_push_u16(s, (plus2.v - 1 + U16) % U16)
        target == mem_read_u16(s1.bus, s1.program_counter)
    IN  IF plus2.panic THEN unwind(s)
        ELSE IF s1.panic THEN s1
        ELSE IF target.panic THEN unwind(s1)
        ELSE [s1 EXCEPT !.program_counter = target.v]

rts_inline(s) ==
    LET popped == stack_pop_u16(s)
        plus1  == AddU16(popped.v, 1)
    IN  IF popped.s.panic THEN popped.s
        ELSE IF plus1.panic THEN unwind(popped.s)
        ELSE [popped.s EXCEPT !.program_counter = plus1.v]

\* an RTI that takes the popped status byte as it is
rti_inline_raw(s) ==
    LET p  == stack_pop(s)
        s1 == [p.s EXCEPT !.flags = p.v]
        pc == stack_pop_u16(s1)
    IN  IF p.s.panic THEN p.s
        ELSE IF pc.s.panic THEN pc.s
        ELSE [pc.s EXCEPT !.program_counter = pc.v]

rti_inline(s) ==
    LET p  == stack_pop(s)
        s1 == [p.s EXCEPT !.flags = insert(remove(p.v, BREAK), BREAK2)]
        pc == stack_pop_u16(s1)
    IN  IF p.s.panic THEN p.s
        ELSE IF pc.s.panic THEN pc.s
        ELSE [pc.s EXCEPT !.program_counter = pc.v]

\* The arms of `match code`, but 0x00 => return (see step).
execute(s, code, mode) ==
    CASE code \in {\hA9, \hA5, \hB5, \hAD, \hBD, \hB9, \hA1, \hB1} -> lda(s, operand(s, mode))
      [] code = \hAA -> tax(s)
      [] code = \hE8 -> inx(s)
      [] code = \hD8 -> cld(s)
      [] code = \h58 -> cli(s)
      [] code = \hB8 -> clv(s)
      [] code = \h18 -> clc(s)
      [] code = \h38 -> sec(s)
      [] code = \h78 -> sei(s)
      [] code = \hF8 -> sed(s)
      [] code = \h48 -> pha(s)
      [] code = \h68 -> pla(s)
      [] code = \h08 -> php(s)
      [] code = \h28 -> plp(s)
      [] code \in {\h69, \h65, \h75, \h6D, \h7D, \h79, \h61, \h71} -> adc(s, operand(s, mode))
      [] code \in {\hE9, \hE5, \hF5, \hED, \hFD, \hF9, \hE1, \hF1} -> sbc(s, operand(s, mode))
      [] code \in {\h29, \h25, \h35, \h2D, \h3D, \h39, \h21, \h31} -> and(s, operand(s, mode))
      [] code \in {\h49, \h45, \h55, \h4D, \h5D, \h59, \h41, \h51} -> eor(s, operand(s, mode))
      [] code \in {\h09, \h05, \h15, \h0D, \h1D, \h19, \h01, \h11} -> ora(s, operand(s, mode))
      [] code = \h4A -> lsr_accumulator(s)
      [] code \in {\h46, \h56, \h4E, \h5E} -> lsr(s, operand(s, mode))
      [] code = \h0A -> asl_accumulator(s)
      [] code \in {\h06, \h16, \h0E, \h1E} -> asl(s, operand(s, mode))
      [] code = \h2A -> rol_accumulator(s)
      [] code \in {\h26, \h36, \h2E, \h3E} -> rol(s, operand(s, mode))
      [] code = \h6A -> ror_accumulator(s)
      [] code \in {\h66, \h76, \h6E, \h7E} -> ror(s, operand(s, mode))
      [] code \in {\hE6, \hF6, \hEE, \hFE} -> inc(s, operand(s, mode))
      [] code = \hC8 -> iny(s)
      [] code \in {\hC6, \hD6, \hCE, \hDE} -> dec(s, operand(s, mode))
      [] code = \hCA -> dex(s)
      [] code = \h88 -> dey(s)
      [] code \in {\hC9, \hC5, \hD5, \hCD, \hDD, \hD9, \hC1, \hD1} ->
            compare(s, operand(s, mode), s.register_a)
      [] code \in {\hC0, \hC4, \hCC} -> compare(s, operand(s, mode), s.register_y)
      [] code \in {\hE0, \hE4, \hEC} -> compare(s, operand(s, mode), s.register_x)
      [] code = \h4C -> jmp_absolute(s)
      [] code = \h6C -> jmp_indirect(s)
      [] code = \h20 -> jsr_inline(s)
      [] code = \h60 -> rts_inline(s)
      [] code = \h40 -> rti_inline(s)
      [] code = \hD0 -> bne(s)
      [] code = \h70 -> bvs(s)
      [] code = \h50 -> bvc(s)
      [] code = \h10 -> bpl(s)
      [] code = \h30 -> bmi(s)
      [] code = \hF0 -> beq(s)
      [] code = \hB0 -> bcs(s)
      [] code = \h90 -> bcc(s)
      [] code \in {\h24, \h2C} -> bit(s, operand(s, mode))
      [] code \in {\h85, \h95, \h8D, \h9D, \h99, \h81, \h91} ->
            sta(s, calculate_address(s, mode))
      [] code \in {\h86, \h96, \h8E} -> stx(s, calculate_address(s, mode))
      [] code \in {\h84, \h94, \h8C} -> sty(s, calculate_address(s, mode))
      [] code \in {\hA2, \hA6, \hB6, \hAE, \hBE} -> ldx(s, operand(s, mode))
      [] code \in {\hA0, \hA4, \hB4, \hAC, \hBC} -> ldy(s, operand(s, mode))
      [] code = \hEA -> s
      [] code = \hA8 -> tay(s)
      [] code = \hBA -> tsx(s)
      [] code = \h8A -> txa(s)
      [] code = \h9A -> txs(s)
      [] code = \h98 -> tya(s)
      [] OTHER -> unwind(s)     \* todo!()

\* What a turn of the loop leaves.  s: the Cpu after it; returned: the loop
\* returned; code: the byte fetched; called: the callback ran in this turn;
\* report: what the panic message names, as <<name, value>> pairs.
outcome(s, returned, code, called, report) ==
    [s |-> s, returned |-> returned, code |-> code, called |-> called,
     report |-> report]

\* The end of a turn, s2 the Cpu after the arm of `match code`: the program
\* counter moves past the operands unless the instruction changed it, then
\* the callback runs.
advance(program_counter_state, s2, len, code) ==
    LET adv == AddU16(s2.program_counter, len - 1)
    IN  IF s2.panic THEN outcome(s2, FALSE, code, FALSE, {})
        ELSE IF program_counter_state # s2.program_counter
            THEN outcome(callback(s2), FALSE, code, TRUE, {})
        ELSE IF adv.panic THEN outcome(unwind(s2), FALSE, code, FALSE, {})
        ELSE outcome(callback([s2 EXCEPT !.program_counter = adv.v]),
                     FALSE, code, TRUE, {})

\* One turn of the loop.
step(s) ==
    LET fetch  == mem_read(s.bus, s.program_counter)
        code   == fetch.v
        next   == AddU16(s.program_counter, 1)           \* program_counter += 1
        s1     == [s EXCEPT !.program_counter = next.v]
        known  == code \in DOMAIN OPCODES_MAP
        opcode == OPCODES_MAP[code]
    IN  IF fetch.panic THEN outcome(unwind(s), FALSE, code, FALSE, {})
        ELSE IF next.panic THEN outcome(unwind(s), FALSE, code, FALSE, {})
        ELSE IF ~known     \* expect(&format!("OpCode {:x} is not regconized", code))
            THEN outcome(unwind(s1), FALSE, code, FALSE, {<<"OpCode", code>>})
        ELSE IF code = \h00 THEN outcome(s1, TRUE, code, FALSE, {})
        ELSE advance(s1.program_counter, execute(s1, code, opcode.mode),
                     opcode.len, code)

\* Cpu::new
CpuNew ==
    [program_counter |-> 0, register_a |-> 0, register_x |-> 0,
     register_y |-> 0, stack_pointer |-> 0, flags |-> INIT_FLAGS,
     bus |-> BusNew, panic |-> FALSE]

reset_keeps_y(s) ==
    LET vector == mem_read_u16(s.bus, RESET_VECTOR)
    IN  IF vector.panic THEN unwind(s)
        ELSE [s EXCEPT !.register_a = 0, !.register_x = 0,
                       !.stack_pointer = STACK_RESET, !.flags = INIT_FLAGS,
                       !.program_counter = vector.v]

reset(s) ==
    LET vector == mem_read_u16(s.bus, RESET_VECTOR)
    IN  IF vector.panic THEN unwind(s)
        ELSE [s EXCEPT !.register_a = 0, !.register_x = 0, !.register_y = 0,
                       !.stack_pointer = STACK_RESET, !.flags = INIT_FLAGS,
                       !.program_counter = vector.v]

\* load: the bytes of `program` from 0x600 on, then the reset vector
RECURSIVE load_bytes(_, _, _)
load_bytes(s, program, cur_rom_address) ==
    IF program = <<>> \/ s.panic THEN s
    ELSE load_bytes(bus_write(s, cur_rom_address, Head(program)),
                    Tail(program), cur_rom_address + 1)

load(s, program) ==
    LET s1 == load_bytes(s, program, PROGRAM_BASE)
        w  == mem_write_u16(s1.bus, RESET_VECTOR, PROGRAM_BASE)
    IN  IF s1.panic THEN s1
        ELSE [s1 EXCEPT !.bus = w.bus, !.panic = w.panic]

(***************************************************************************)
(* Bounds and the inputs drawn.                                            *)
(***************************************************************************)
MaxSetup == 1        \* fields and memory cells the caller presets before a run
MaxSteps == 3        \* turns of the loop followed in one run
MaxBusOps == 2       \* bus operations in one behaviour of SpecBus
MaxInstr == 1        \* instructions run in a row in SpecInstr
MaxAdcSbc == 2       \* instructions run in a row in SpecAdcSbc
MaxJmpInd == 1       \* JMP (ind) instructions run in a row in SpecJmpInd
MaxIncDec == 3       \* instructions run in a row in SpecIncDec
MaxPhpPlp == 2       \* instructions run in a row in SpecPhpPlp
MaxJsrRts == 3       \* instructions run in a row in SpecJsrRts
MaxStatus == 2       \* instructions run in a row in SpecStatus
MaxAlu == 1          \* instructions run in a row in SpecAdc, SpecBit, SpecRotate,
                     \* SpecSbc, SpecCompare, SpecModes and SpecFrame
MaxStackOps == 3     \* stack operations in one behaviour of SpecStack

PresetBytes == {\h01, \h80, \hFF}

PresetFlags == {\b00100101, \b11100111}

PresetCells == {\h10}

OperandBytes == {\h00, \h01, \h80, \hFF}

StackPointers == {\h00, \h01, \hFD, \hFE, \hFF}

\* the programs of the tests (cpu.rs 936, 947, 957, 968, 980)
TestPrograms ==
    {<<\hA9, \h05, \h00>>, <<\hAA, \h00>>, <<\hA9, \hC0, \hAA, \hE8, \h00>>,
     <<\hE8, \hE8, \h00>>, <<\hA5, \h10, \hA5, \hFF, \h00>>}

\* and LDA #v; BRK for more bytes v
Programs ==
    TestPrograms \cup {<<\hA9, v, \h00>> : v \in OperandBytes}

\* every region of the address space, with its first and last address
BusAddrs ==
    {\h0000, \h0001, \h07FF, \h0800, \h0FFF, \h1000, \h1800, \h1FFE,
     \h1FFF, \h2000, \h3FFF, \h4000, \hFFFC, \hFFFF}

BusBytes == {\h00, \h5A, \hFF}

WordSamples == {\h0600, \h12FF, \hFF00}

(***************************************************************************)
(* History records.                                                        *)
(***************************************************************************)
Regs(s) ==
    [program_counter |-> s.program_counter, register_a |-> s.register_a,
     register_x |-> s.register_x, register_y |-> s.register_y,
     stack_pointer |-> s.stack_pointer, flags |-> s.flags]

Op(name, addr, val, res, aux) ==
    [op |-> name, addr |-> addr, val |-> val, res |-> res, aux |-> aux,
     pre |-> Regs(Self)]

NoEntry == [via |-> "none", program |-> <<>>, pre |-> Regs(CpuNew)]

\* The Cpu after an operation that returned s; a panic ends the process.
Commit(s) ==
    /\ program_counter' = s.program_counter
    /\ register_a' = s.register_a
    /\ register_x' = s.register_x
    /\ register_y' = s.register_y
    /\ stack_pointer' = s.stack_pointer
    /\ flags' = s.flags
    /\ cpu_vram' = s.bus

Init ==
    /\ program_counter = CpuNew.program_counter
    /\ register_a = CpuNew.register_a
    /\ register_x = CpuNew.register_x
    /\ register_y = CpuNew.register_y
    /\ stack_pointer = CpuNew.stack_pointer
    /\ flags = CpuNew.flags
    /\ cpu_vram = CpuNew.bus
    /\ overflow_checks \in BOOLEAN
    /\ status = "ready"
    /\ setup = {}
    /\ entry = NoEntry
    /\ last = [op |-> "new", addr |-> 0, val |-> 0, res |-> 0, aux |-> 0,
               pre |-> Regs(CpuNew)]
    /\ nops = 0
    /\ steps = 0

(***************************************************************************)
(* SpecBus: the four operations of the Memory trait on a Bus.              *)
(***************************************************************************)
BusRead(a) ==
    /\ status = "ready" /\ nops < MaxBusOps
    /\ LET r == mem_read(cpu_vram, a)
       IN  /\ status' = IF r.panic THEN "panicked" ELSE "ready"
           /\ last' = Op("mem_read", a, 0, r.v, 0)
    /\ nops' = nops + 1
    /\ UNCHANGED <<cpuvars, cpu_vram, overflow_checks, setup, entry, steps>>

BusWrite(a, v) ==
    /\ status = "ready" /\ nops < MaxBusOps
    /\ LET w == mem_write(cpu_vram, a, v)
       IN  /\ status' = IF w.panic THEN "panicked" ELSE "ready"
           /\ cpu_vram' = w.bus
           /\ last' = Op("mem_write", a, v, 0, 0)
    /\ nops' = nops + 1
    /\ UNCHANGED <<cpuvars, overflow_checks, setup, entry, steps>>

BusReadU16(a) ==
    /\ status = "ready" /\ nops < MaxBusOps
    /\ LET r == mem_read_u16(cpu_vram, a)
       IN  /\ status' = IF r.panic THEN "panicked" ELSE "ready"
           /\ last' = Op("mem_read_u16", a, 0, r.v, 0)
    /\ nops' = nops + 1
    /\ UNCHANGED <<cpuvars, cpu_vram, overflow_checks, setup, entry, steps>>

BusWriteU16(a, v) ==
    /\ status = "ready" /\ nops < MaxBusOps
    /\ LET w == mem_write_u16(cpu_vram, a, v)
       IN  /\ status' = IF w.panic THEN "panicked" ELSE "ready"
           /\ cpu_vram' = w.bus
           /\ last' = Op("mem_write_u16", a, v, 0, 0)
    /\ nops' = nops + 1
    /\ UNCHANGED <<cpuvars, overflow_checks, setup, entry, steps>>

NextBus ==
    \/ \E a \in BusAddrs : BusRead(a)
    \/ \E a \in BusAddrs, v \in BusBytes : BusWrite(a, v)
    \/ \E a \in BusAddrs : BusReadU16(a)
    \/ \E a \in BusAddrs, v \in WordSamples : BusWriteU16(a, v)

SpecBus == Init /\ [][NextBus]_vars

(***************************************************************************)
(* Claims about the bus, under SpecBus.                                    *)
(***************************************************************************)
Happened(name) == last.op = name /\ nops > 0

\* all four mirrors of the RAM cells the operations above can reach
RamProbes ==
    {c + k * VRAM_SIZE : c \in {\h000, \h001, \h010, \h600, \h7FE, \h7FF},
                         k \in 0 .. 3}

\* C4: the bus is total: a read8 or write8 at any 16-bit address completes,
\* none drives the bus into a panic.
C4_BusTotal ==
    (Happened("mem_read") \/ Happened("mem_write")) => status # "panicked"

\* C5: RAM mirroring: read8(a) = read8(a & 0x07FF) for every a < 0x2000, and a
\* write8 to any RAM address is visible at all four mirrors of its cell.
C5_RamMirroring ==
    /\ \A a \in RamProbes :
          mem_read(cpu_vram, a) = mem_read(cpu_vram, a % \h0800)
    /\ (Happened("mem_write") /\ last.addr <= RAM_MIRRORS_END) =>
          \A k \in 0 .. 3 :
             mem_read(cpu_vram, (last.addr % \h0800) + k * \h0800)
                = [v |-> last.val, panic |-> FALSE]

C5_Witness ==
    /\ Happened("mem_write") /\ last.addr = \h1800 /\ last.val = \h5A
    /\ mem_read(cpu_vram, \h0000).v = \h5A
    /\ mem_read(cpu_vram, \h0800).v = \h5A

\* C6: little-endian round trip: after write16(a, v) with a and a+1 in RAM,
\* read16(a) = v, read8(a) is the low byte and read8(a+1) the high byte.
C6_LittleEndianRoundTrip ==
    (Happened("mem_write_u16") /\ last.addr + 1 <= RAM_MIRRORS_END) =>
        /\ status = "ready"
        /\ mem_read_u16(cpu_vram, last.addr) = [v |-> last.val, panic |-> FALSE]
        /\ mem_read(cpu_vram, last.addr).v = last.val % 256
        /\ mem_read(cpu_vram, last.addr + 1).v = last.val \div 256

C6_Witness ==
    /\ Happened("mem_write_u16") /\ last.addr = \h07FF /\ last.val = \h12FF
    /\ mem_read_u16(cpu_vram, \h07FF).v = \h12FF
    /\ cpu_vram[\h7FF] = \hFF /\ cpu_vram[\h000] = \h12

\* C7: in the device region 0x4000-0xFFFF a read8 returns 0 whatever was
\* written before, and a write8 changes no byte of the bus.
C7_DeviceRegion ==
    [][ /\ (nops' = nops + 1 /\ last'.op = "mem_read"
               /\ last'.addr > PPU_REGISTERS_MIRRORS_END)
            => (last'.res = 0 /\ status' = "ready")
        /\ (nops' = nops + 1 /\ last'.op = "mem_write"
               /\ last'.addr > PPU_REGISTERS_MIRRORS_END)
            => (cpu_vram' = cpu_vram /\ status' = "ready"
                /\ mem_read(cpu_vram', last'.addr).v = 0) ]_vars

C7_Witness ==
    /\ Happened("mem_write") /\ last.addr = \hFFFC /\ last.val = \h5A
    /\ mem_read(cpu_vram, \hFFFC).v = 0
    /\ cpu_vram # BusNew

(***************************************************************************)
(* SpecStack: stack_push and stack_pop applied to a Cpu whose stack        *)
(* pointer is any of StackPointers (TXS sets it from X).                   *)
(***************************************************************************)
InitStack ==
    /\ program_counter = CpuNew.program_counter
    /\ register_a = CpuNew.register_a
    /\ register_x = CpuNew.register_x
    /\ register_y = CpuNew.register_y
    /\ stack_pointer \in StackPointers
    /\ flags = CpuNew.flags
    /\ cpu_vram = CpuNew.bus
    /\ overflow_checks \in BOOLEAN
    /\ status = "ready"
    /\ setup = {"sp"}
    /\ entry = NoEntry
    /\ last = [op |-> "new", addr |-> 0, val |-> 0, res |-> 0, aux |-> 0,
               pre |-> Regs(CpuNew)]
    /\ nops = 0
    /\ steps = 0

StackPush(b) ==
    /\ status = "ready" /\ nops < MaxStackOps
    /\ LET s == stack_push(Self, b)
       IN  /\ Commit(s)
           /\ status' = IF s.panic THEN "panicked" ELSE "ready"
    /\ last' = Op("stack_push", 0, b, 0, 0)
    /\ nops' = nops + 1
    /\ UNCHANGED <<overflow_checks, setup, entry, steps>>

StackPop ==
    /\ status = "ready" /\ nops < MaxStackOps
    /\ LET r == stack_pop(Self)
       IN  /\ Commit(r.s)
           /\ status' = IF r.s.panic THEN "panicked" ELSE "ready"
           /\ last' = Op("stack_pop", 0, 0, r.v, 0)
    /\ nops' = nops + 1
    /\ UNCHANGED <<overflow_checks, setup, entry, steps>>

NextStack ==
    \/ \E b \in BusBytes : StackPush(b)
    \/ StackPop

SpecStack == InitStack /\ [][NextStack]_vars

\* C8: push(b) writes b at 0x0100 + SP (and nowhere else) and then decrements
\* SP modulo 256; pop() increments SP modulo 256 and returns the byte at
\* 0x0100 + SP; a pop right after push(b) returns b and leaves SP as it was
\* before the push.  No access leaves page 1.
C8_StackDuality ==
    [][ /\ (nops' = nops + 1 /\ last'.op = "stack_push") =>
            /\ status' = "ready"
            /\ mem_read(cpu_vram', STACK + stack_pointer).v = last'.val
            /\ \A i \in DOMAIN cpu_vram :
                  i # STACK + stack_pointer => cpu_vram'[i] = cpu_vram[i]
            /\ stack_pointer' = (stack_pointer + 255) % 256
        /\ (nops' = nops + 1 /\ last'.op = "stack_pop") =>
            /\ status' = "ready"
            /\ stack_pointer' = (stack_pointer + 1) % 256
            /\ cpu_vram' = cpu_vram
            /\ last'.res = cpu_vram[STACK + stack_pointer']
            /\ last.op = "stack_push" =>
                  /\ last'.res = last.val
                  /\ stack_pointer' = last.pre.stack_pointer ]_vars

\* the wrap case: push at SP = 0x00 leaves SP = 0xFF, the pop returns to 0x00
C8_Witness ==
    /\ Happened("stack_pop") /\ last.pre.stack_pointer = \hFF
    /\ stack_pointer = \h00 /\ last.res = \h5A /\ cpu_vram[\h100] = \h5A

(***************************************************************************)
(* SpecInstr: the arms of `match code` applied to a Cpu in the middle of a *)
(* run: the opcode at 0x0600 was fetched, program_counter is at the byte   *)
(* after it.  The addressing mode is an input of its own, so what is       *)
(* checked here holds whatever mode the opcode table gives an opcode.      *)
(***************************************************************************)
\* <<register_a, register_x, register_y, stack_pointer>>
RegisterSamples ==
    {<<\h00, \h00, \h00, \hFD>>, <<\h01, \hFF, \h80, \h00>>,
     <<\hFF, \h80, \h01, \hFF>>}

FlagSamples == {INIT_FLAGS, BitOr(INIT_FLAGS, CARRY)}

InstrModes == {"Immediate", "ZeroPage"}

\* one opcode of each arm that takes an addressing mode:
\* lda ldx ldy and ora eor adc sbc inc dec asl lsr
ModeArms ==
    {\hA9, \hA2, \hA0, \h29, \h09, \h49, \h69, \hE9, \hE6, \hC6, \h06, \h46}

\* and of each arm that takes none:
\* tax tay txa tya tsx pla pha inx iny dex dey asl_accumulator lsr_accumulator
PlainArms ==
    {\hAA, \hA8, \h8A, \h98, \hBA, \h68, \h48, \hE8, \hC8, \hCA, \h88, \h0A,
     \h4A}

\* The byte after the opcode is v; the zero-page cell v holds 0xFF - v; the
\* stack cell 0x01FE (popped at stack_pointer = 0xFD) holds 0x80.
InstrMemory(v) ==
    mem_write(mem_write(mem_write(BusNew, v, \hFF - v).bus,
                        STACK + \hFE, \h80).bus,
              PROGRAM_BASE + 1, v).bus

InitInstr ==
    /\ \E r \in RegisterSamples :
          /\ register_a = r[1] /\ register_x = r[2]
          /\ register_y = r[3] /\ stack_pointer = r[4]
    /\ flags \in FlagSamples
    /\ program_counter = PROGRAM_BASE + 1
    /\ \E v \in OperandBytes : cpu_vram = InstrMemory(v)
    /\ overflow_checks \in BOOLEAN
    /\ status = "running"
    /\ setup = {"a", "x", "y", "sp", "flags", "pc", "mem"}
    /\ entry = [via |-> "run_with_callback", program |-> <<>>,
                pre |-> Regs(Self)]
    /\ last = [op |-> "new", addr |-> 0, val |-> 0, res |-> 0,
               aux |-> <<0, 0>>, pre |-> Regs(Self)]
    /\ nops = 0
    /\ steps = 0

\* The arm of `code` runs.  last: addr the effective address and res the byte
\* there before the arm ran (0 without a mode), val the opcode, aux the
\* opcode and operand byte of the instruction before this one.
ExecArm(code, mode) ==
    /\ status = "running"
    /\ LET s == execute(Self, code, mode)
       IN  /\ Commit(s)
           /\ status' = IF s.panic THEN "panicked" ELSE "running"
    /\ last' = IF mode = "NoneAddressing"
                  THEN Op("execute", 0, code, 0, <<last.val, last.res>>)
               ELSE Op("execute", operand(Self, mode).addr, code,
                       operand(Self, mode).v, <<last.val, last.res>>)
    /\ nops' = nops + 1
    /\ UNCHANGED <<overflow_checks, setup, steps>>

Exec(code, mode) == ExecArm(code, mode) /\ UNCHANGED entry

NextInstr ==
    /\ nops < MaxInstr
    /\ \/ \E code \in ModeArms, mode \in InstrModes : Exec(code, mode)
       \/ \E code \in PlainArms : Exec(code, "NoneAddressing")

SpecInstr == InitInstr /\ [][NextInstr]_vars

\* SpecAdcSbc: the adc and sbc arms alone, in any order
NextAdcSbc ==
    /\ nops < MaxAdcSbc
    /\ \E code \in {\h69, \hE9}, mode \in InstrModes : Exec(code, mode)

SpecAdcSbc == InitInstr /\ [][NextAdcSbc]_vars

\* the opcodes of the arms, by the destination the instruction writes
WritesA ==
    {\hA9, \hA5, \hB5, \hAD, \hBD, \hB9, \hA1, \hB1,      \* LDA
     \h29, \h25, \h35, \h2D, \h3D, \h39, \h21, \h31,      \* AND
     \h09, \h05, \h15, \h0D, \h1D, \h19, \h01, \h11,      \* ORA
     \h49, \h45, \h55, \h4D, \h5D, \h59, \h41, \h51,      \* EOR
     \h69, \h65, \h75, \h6D, \h7D, \h79, \h61, \h71,      \* ADC
     \hE9, \hE5, \hF5, \hED, \hFD, \hF9, \hE1, \hF1,      \* SBC
     \h8A, \h98, \h68, \h0A, \h4A}       \* TXA TYA PLA ASL A LSR A

WritesX ==
    {\hA2, \hA6, \hB6, \hAE, \hBE, \hAA, \hBA, \hE8, \hCA}  \* LDX TAX TSX INX DEX

WritesY ==
    {\hA0, \hA4, \hB4, \hAC, \hBC, \hA8, \hC8, \h88}        \* LDY TAY INY DEY

WritesMemory ==
    {\hE6, \hF6, \hEE, \hFE, \hC6, \hD6, \hCE, \hDE,      \* INC DEC
     \h06, \h16, \h0E, \h1E, \h46, \h56, \h4E, \h5E}      \* ASL LSR

\* Z == (r == 0) and N == (bit 7 of r == 1)
ZeroNegativeOf(r) ==
    /\ contains(flags, ZERO) <=> (r = 0)
    /\ contains(flags, NEGATIVE) <=> (r >= \h80)

AdcThenSbc ==
    /\ last.op = "execute" /\ last.val = \h69 /\ status = "running"
    /\ contains(last.pre.flags, CARRY)
    /\ last'.op = "execute" /\ last'.val = \hE9 /\ nops' = nops + 1
    /\ last'.res = last.res /\ status' = "running"

\* C10 as stated: starting with C = 1, ADC v and then SBC v leave A and C
\* equal to the values they had before the ADC, for every A and v.
C10_AdcSbcRestores ==
    [][ AdcThenSbc =>
            /\ register_a' = last.pre.register_a
            /\ contains(flags', CARRY) ]_vars

\* C10, amended: starting with C = 1, ADC v and then SBC v restore A and C
\* exactly when the ADC has no carry out (A + v + 1 <= 0xFF); when it has
\* one, A ends as (A + 1) mod 256 and C is set only if A was 0xFF.
C10_AdcSbcNoCarryOut ==
    [][ AdcThenSbc =>
            IF last.pre.register_a + last.res + 1 <= \hFF
                THEN /\ register_a' = last.pre.register_a
                     /\ contains(flags', CARRY)
            ELSE /\ register_a' = (last.pre.register_a + 1) % 256
                 /\ register_a' # last.pre.register_a
                 /\ contains(flags', CARRY) <=> (last.pre.register_a = \hFF)
      ]_vars

\* A = 0x01, v = 0x80, C = 1: ADC gives 0x82 without carry out, SBC gives
\* back 0x01 with C set
C10_Witness ==
    /\ nops = 2 /\ status = "running" /\ last.op = "execute"
    /\ last.val = \hE9 /\ last.aux = <<\h69, \h80>> /\ last.res = \h80
    /\ contains(entry.pre.flags, CARRY) /\ entry.pre.register_a = \h01
    /\ last.pre.register_a = \h82
    /\ register_a = \h01 /\ contains(flags, CARRY)

(***************************************************************************)
(* SpecJmpInd: the 0x6c arm alone.  The two bytes after the opcode hold    *)
(* the pointer p; the cells p, p + 1 and p & 0xFF00 hold lo, hi and page.  *)
(***************************************************************************)
\* pointers in zero page, at the end of a page, at the end of the RAM and of
\* its last mirror, and in the device region
JmpPointers == {\h0010, \h01FF, \h02FF, \h07FF, \h1FFE, \h1FFF, \h4001}

JmpLows == {\h00, \h34, \hFF}

JmpHighs == {\h00, \h12}

JmpPage == \h56

\* (0x1FFF + 1 is a PPU register: nothing is written there)
JmpMemory(p, lo, hi) ==
    LET page == mem_write(BusNew, (p \div 256) * 256, JmpPage).bus
        next == IF p = \h1FFF THEN page ELSE mem_write(page, p + 1, hi).bus
    IN  mem_write_u16(mem_write(next, p, lo).bus, PROGRAM_BASE + 1, p).bus

InitJmpInd ==
    /\ overflow_checks \in BOOLEAN
    /\ register_a = 0 /\ register_x = 0 /\ register_y = 0
    /\ stack_pointer = STACK_RESET
    /\ flags = INIT_FLAGS
    /\ program_counter = PROGRAM_BASE + 1
    /\ \E p \in JmpPointers, lo \in JmpLows, hi \in JmpHighs :
          cpu_vram = JmpMemory(p, lo, hi)
    /\ status = "running"
    /\ setup = {"pc", "mem"}
    /\ entry = [via |-> "run_with_callback", program |-> <<>>,
                pre |-> Regs(Self)]
    /\ last = [op |-> "new", addr |-> 0, val |-> 0, res |-> 0,
               aux |-> <<0, 0>>, pre |-> Regs(Self)]
    /\ nops = 0
    /\ steps = 0

NextJmpInd ==
    /\ nops < MaxJmpInd
    /\ Exec(\h6C, "NoneAddressing")

SpecJmpInd == InitJmpInd /\ [][NextJmpInd]_vars

\* the pointer the JMP (ind) that produced this state read
JmpPointer == mem_read_u16(cpu_vram, last.pre.program_counter).v

AluBytes == {\h00, \h01, \h40, \h50, \h7F, \h80, \hAF, \hBF, \hFE, \hFF}

AluAccumulators == {\h00, \h01, \h50, \h80, \hC0, \hFF}

\* carry clear and set, with Z, V and N clear and set
AluFlags == {INIT_FLAGS, BitOr(INIT_FLAGS, CARRY), \b11100110, \b11100111}

InitAlu ==
    /\ register_a \in AluAccumulators
    /\ register_x = \h00 /\ register_y = \h00 /\ stack_pointer = STACK_RESET
    /\ flags \in AluFlags
    /\ program_counter = PROGRAM_BASE + 1
    /\ \E v \in AluBytes : cpu_vram = InstrMemory(v)
    /\ overflow_checks \in BOOLEAN
    /\ status = "running"
    /\ setup = {"a", "flags", "pc", "mem"}
    /\ entry = [via |-> "run_with_callback", program |-> <<>>,
                pre |-> Regs(Self)]
    /\ last = [op |-> "new", addr |-> 0, val |-> 0, res |-> 0,
               aux |-> <<0, 0>>, pre |-> Regs(Self)]
    /\ nops = 0
    /\ steps = 0

\* ADC #v and ADC zp
NextAdc ==
    /\ nops < MaxAlu
    /\ \E mode \in InstrModes : Exec(\h69, mode)

SpecAdc == InitAlu /\ [][NextAdc]_vars

\* C17: ADC with s = A + v + C leaves A = s mod 256, C = (s > 0xFF),
\* V = (((v XOR result) AND (result XOR A_old) AND 0x80) != 0), and Z and N
\* from the result, for every A, operand v and carry going in.
C17_Adc ==
    (last.op = "execute" /\ last.val = \h69) =>
        LET A_old  == last.pre.register_a
            v      == last.res
            s      == A_old + v
                      + (IF contains(last.pre.flags, CARRY) THEN 1 ELSE 0)
            result == s % 256
        IN  /\ status = "running"
            /\ register_a = result
            /\ contains(flags, CARRY) <=> s > \hFF
            /\ contains(flags, OVERFLOW) <=>
                   BitAnd(BitAnd(BitXor(v, result), BitXor(result, A_old)),
                          \h80) # 0
            /\ contains(flags, ZERO) <=> result = 0
            /\ contains(flags, NEGATIVE) <=> result >= \h80

\* ADC ran on A = 0x50, v = 0x50, C = 0 and left A = 0xA0, C = 0, V = 1, N = 1
C17_Witness ==
    /\ last.op = "execute" /\ last.val = \h69
    /\ last.pre.register_a = \h50 /\ last.res = \h50
    /\ ~contains(last.pre.flags, CARRY)
    /\ register_a = \hA0 /\ ~contains(flags, CARRY)
    /\ contains(flags, OVERFLOW) /\ contains(flags, NEGATIVE)

(***************************************************************************)
(* SpecIncDec: sequences of INX, INY, DEX, DEY, LDA #v and TAX; the        *)
(* opcodes run so far are kept in entry.program.                           *)
(***************************************************************************)
\* <<register_x, register_y>>
IncDecSamples ==
    {<<\h00, \hFF>>, <<\h01, \h80>>, <<\h7F, \h00>>, <<\h80, \h7F>>,
     <<\hFF, \h01>>}

IncDecOperands == {\h00, \h7F, \hFF}

IncDecArms == {\hE8, \hC8, \hCA, \h88, \hAA}

InitIncDec ==
    /\ register_a = \h55
    /\ \E r \in IncDecSamples : register_x = r[1] /\ register_y = r[2]
    /\ stack_pointer = STACK_RESET
    /\ flags = INIT_FLAGS
    /\ program_counter = PROGRAM_BASE + 1
    /\ \E v \in IncDecOperands : cpu_vram = InstrMemory(v)
    /\ overflow_checks \in BOOLEAN
    /\ status = "running"
    /\ setup = {"a", "x", "y", "pc", "mem"}
    /\ entry = [via |-> "run_with_callback", program |-> <<>>,
                pre |-> Regs(Self)]
    /\ last = [op |-> "new", addr |-> 0, val |-> 0, res |-> 0,
               aux |-> <<0, 0>>, pre |-> Regs(Self)]
    /\ nops = 0
    /\ steps = 0

ExecLogged(code, mode) ==
    /\ ExecArm(code, mode)
    /\ entry' = [entry EXCEPT !.program = Append(@, code)]

NextIncDec ==
    /\ nops < MaxIncDec
    /\ \/ \E code \in IncDecArms : ExecLogged(code, "NoneAddressing")
       \/ ExecLogged(\hA9, "Immediate")

SpecIncDec == InitIncDec /\ [][NextIncDec]_vars

\* the register an increment or decrement works on, in the registers r
IncDecRegister(code, r) ==
    IF code \in {\hE8, \hCA} THEN r.register_x ELSE r.register_y

\* C18: INX, INY, DEX and DEY change their register by exactly +1 or -1
\* modulo 256 and set Z and N from the wrapped value; from X = 0xFF two INX
\* leave X = 0x01 with Z clear, and LDA #v, TAX, INX leaves X = (v + 1) mod 256.
C18_IncDec ==
    /\ (last.op = "execute" /\ last.val \in {\hE8, \hC8, \hCA, \h88}) =>
          LET old     == IncDecRegister(last.val, last.pre)
              wrapped == IF last.val \in {\hE8, \hC8}
                             THEN (old + 1) % 256 ELSE (old + 255) % 256
          IN  /\ status = "running"
              /\ IncDecRegister(last.val, Self) = wrapped
              /\ contains(flags, ZERO) <=> wrapped = 0
              /\ contains(flags, NEGATIVE) <=> wrapped >= \h80
              /\ register_a = last.pre.register_a
              /\ last.val \in {\hE8, \hCA} => register_y = last.pre.register_y
              /\ last.val \in {\hC8, \h88} => register_x = last.pre.register_x
    /\ (entry.program = <<\hE8, \hE8>> /\ entry.pre.register_x = \hFF) =>
          register_x = \h01 /\ ~contains(flags, ZERO)
    /\ entry.program = <<\hA9, \hAA, \hE8>> =>
          register_x = (mem_read(cpu_vram, PROGRAM_BASE + 1).v + 1) % 256

\* LDA #0xFF, TAX, INX ran and wrapped X to 0x00
C18_Witness ==
    /\ entry.program = <<\hA9, \hAA, \hE8>>
    /\ mem_read(cpu_vram, PROGRAM_BASE + 1).v = \hFF
    /\ register_x = \h00 /\ contains(flags, ZERO)

\* BIT zp and BIT abs
NextBit ==
    /\ nops < MaxAlu
    /\ \E mode \in {"ZeroPage", "Absolute"} : Exec(\h24, mode)

SpecBit == InitAlu /\ [][NextBit]_vars

\* C19: BIT with the memory operand v sets Z = ((v AND A) = 0), N = bit 7 of
\* v and V = bit 6 of v, clearing N and V when the bit of v is 0, for every
\* A, v and flags before; A and memory stay as they were.
C19_Bit ==
    (last.op = "execute" /\ last.val = \h24) =>
        LET v == last.res
        IN  /\ status = "running"
            /\ contains(flags, ZERO) <=> BitAnd(v, last.pre.register_a) = 0
            /\ contains(flags, NEGATIVE) <=> Bit(v, 7) = 1
            /\ contains(flags, OVERFLOW) <=> Bit(v, 6) = 1
            /\ register_a = last.pre.register_a
            /\ mem_read(cpu_vram, last.addr).v = v

\* ROL A, ROR A, ROL zp and ROR zp
NextRotate ==
    /\ nops < MaxAlu
    /\ \/ \E code \in {\h2A, \h6A} : Exec(code, "NoneAddressing")
       \/ \E code \in {\h26, \h66} : Exec(code, "ZeroPage")

SpecRotate == InitAlu /\ [][NextRotate]_vars

\* C20: ROL and ROR, on the accumulator and on memory, rotate through the
\* carry (ROL: C <- bit 7 of v, v <- (v << 1) | c_old; ROR: C <- bit 0 of v,
\* v <- (v >> 1) | (c_old << 7)), write the result back to A or to the
\* effective address, and set Z = (result = 0) and N = bit 7 of the result.
C20_Rotate ==
    (last.op = "execute" /\ last.val \in {\h2A, \h6A, \h26, \h66}) =>
        LET acc    == last.val \in {\h2A, \h6A}
            v      == IF acc THEN last.pre.register_a ELSE last.res
            c_old  == IF contains(last.pre.flags, CARRY) THEN 1 ELSE 0
            left   == last.val \in {\h2A, \h26}
            result == IF left THEN ((v * 2) % 256) + c_old
                      ELSE (v \div 2) + (c_old * 128)
        IN  /\ status = "running"
            /\ contains(flags, CARRY) <=>
                   (IF left THEN Bit(v, 7) ELSE Bit(v, 0)) = 1
            /\ IF acc THEN register_a = result
               ELSE /\ mem_read(cpu_vram, last.addr).v = result
                    /\ register_a = last.pre.register_a
            /\ contains(flags, ZERO) <=> result = 0
            /\ contains(flags, NEGATIVE) <=> result >= \h80

\* SBC #v and SBC zp
NextSbc ==
    /\ nops < MaxAlu
    /\ \E mode \in InstrModes : Exec(\hE9, mode)

SpecSbc == InitAlu /\ [][NextSbc]_vars

\* the Cpu before the last instruction, for one that writes no memory
BeforeLast ==
    [Self EXCEPT !.program_counter = last.pre.program_counter,
                 !.register_a = last.pre.register_a,
                 !.register_x = last.pre.register_x,
                 !.register_y = last.pre.register_y,
                 !.stack_pointer = last.pre.stack_pointer,
                 !.flags = last.pre.flags]

\* C21: SBC with operand v leaves A, C, V, Z and N as ADC with operand
\* (~v) & 0xFF leaves them, for every A, v and carry going in, and the byte
\* given to the adder, (-(v as signed) - 1) & 0xFF, is ~v for all 256 values
\* of v, 0x80 included.
C21_SbcIsAdcOfComplement ==
    /\ (last.op = "execute" /\ last.val = \hE9) =>
          /\ status = "running"
          /\ Regs(Self) =
                Regs(adc(BeforeLast,
                         [addr |-> last.addr, v |-> \hFF - last.res,
                          panic |-> FALSE]))
    /\ \A v \in Byte :
          i8_as_u8(wrapping_sub_i8(wrapping_neg_i8(as_i8(v)), 1)) = \hFF - v

\* SBC ran on the operand 0x80, whose negation as a signed byte wraps
C21_Witness ==
    /\ last.op = "execute" /\ last.val = \hE9 /\ last.res = \h80
    /\ last.pre.register_a = \h50 /\ contains(last.pre.flags, CARRY)
    /\ register_a = \hD0 /\ contains(flags, OVERFLOW)

(***************************************************************************)
(* SpecCompare: CMP, CPX and CPY on registers below, at and above the      *)
(* operand.                                                                *)
(***************************************************************************)
InitCompare ==
    /\ \E r \in RegisterSamples :
          /\ register_a = r[1] /\ register_x = r[2]
          /\ register_y = r[3] /\ stack_pointer = r[4]
    /\ flags \in AluFlags
    /\ program_counter = PROGRAM_BASE + 1
    /\ \E v \in OperandBytes : cpu_vram = InstrMemory(v)
    /\ overflow_checks \in BOOLEAN
    /\ status = "running"
    /\ setup = {"a", "x", "y", "sp", "flags", "pc", "mem"}
    /\ entry = [via |-> "run_with_callback", program |-> <<>>,
                pre |-> Regs(Self)]
    /\ last = [op |-> "new", addr |-> 0, val |-> 0, res |-> 0,
               aux |-> <<0, 0>>, pre |-> Regs(Self)]
    /\ nops = 0
    /\ steps = 0

\* CMP, CPX, CPY with an immediate and a zero-page operand
NextCompare ==
    /\ nops < MaxAlu
    /\ \E code \in {\hC9, \hE0, \hC0}, mode \in InstrModes : Exec(code, mode)

SpecCompare == InitCompare /\ [][NextCompare]_vars

\* the register CMP, CPX or CPY compares, in the registers r
CompareRegister(code, r) ==
    CASE code = \hC9 -> r.register_a
      [] code = \hE0 -> r.register_x
      [] code = \hC0 -> r.register_y

\* C22: CMP, CPX and CPY with register R and operand v set C = (R >= v) and
\* Z and N from (R - v) mod 256, and leave A, X, Y, SP, V and memory as they
\* were, for every R and v.
C22_Compare ==
    (last.op = "execute" /\ last.val \in {\hC9, \hE0, \hC0}) =>
        LET R    == CompareRegister(last.val, last.pre)
            v    == last.res
            diff == (R + 256 - v) % 256
        IN  /\ status = "running"
            /\ contains(flags, CARRY) <=> R >= v
            /\ contains(flags, ZERO) <=> diff = 0
            /\ contains(flags, NEGATIVE) <=> diff >= \h80
            /\ contains(flags, OVERFLOW) <=> contains(last.pre.flags, OVERFLOW)
            /\ register_a = last.pre.register_a
            /\ register_x = last.pre.register_x
            /\ register_y = last.pre.register_y
            /\ stack_pointer = last.pre.stack_pointer
            /\ mem_read(cpu_vram, last.addr).v = v
            /\ cpu_vram = InstrMemory(mem_read(cpu_vram, PROGRAM_BASE + 1).v)

\* CPX ran with X equal to the operand: C and Z set, N clear, V still set
C22_Witness ==
    /\ last.op = "execute" /\ last.val = \hE0
    /\ last.pre.register_x = \h80 /\ last.res = \h80
    /\ contains(last.pre.flags, OVERFLOW) /\ ~contains(last.pre.flags, CARRY)
    /\ contains(flags, CARRY) /\ contains(flags, ZERO)
    /\ ~contains(flags, NEGATIVE) /\ contains(flags, OVERFLOW)

(***************************************************************************)
(* SpecPhpPlp: PHP and PLP in any order, on any of the flag bytes below    *)
(* and with any of the bytes below waiting on the stack.                   *)
(***************************************************************************)
\* with B and U clear and set
StatusSamples == {INIT_FLAGS, \b11100111, \b00000000, \b11011111, \b00110000}

StackedBytes == {\h00, \h10, \hEF, \hFF}

InitPhpPlp ==
    /\ register_a = \h00 /\ register_x = \h00 /\ register_y = \h00
    /\ stack_pointer \in {\h00, STACK_RESET, \hFF}
    /\ flags \in StatusSamples
    /\ program_counter = PROGRAM_BASE + 1
    /\ \E b \in StackedBytes :
          cpu_vram = mem_write(BusNew,
                               STACK + wrapping_add(stack_pointer, 1), b).bus
    /\ overflow_checks \in BOOLEAN
    /\ status = "running"
    /\ setup = {"sp", "flags", "pc", "mem"}
    /\ entry = [via |-> "run_with_callback", program |-> <<>>,
                pre |-> Regs(Self)]
    /\ last = [op |-> "new", addr |-> 0, val |-> 0, res |-> 0,
               aux |-> <<0, 0>>, pre |-> Regs(Self)]
    /\ nops = 0
    /\ steps = 0

NextPhpPlp ==
    /\ nops < MaxPhpPlp
    /\ \E code \in {\h08, \h28} : ExecLogged(code, "NoneAddressing")

SpecPhpPlp == InitPhpPlp /\ [][NextPhpPlp]_vars

\* the byte b with B (bit 4) cleared and U (bit 5) set
ClearBSetU(b) == b - (Bit(b, 4) * 16) + ((1 - Bit(b, 5)) * 32)

\* C23: PHP pushes P | 0x30 and leaves P in the register as it was; PLP sets
\* P to the popped byte with B cleared and U set; so PHP followed at once by
\* PLP restores P and SP whenever P had B clear and U set.
C23_PhpPlp ==
    /\ (last.op = "execute" /\ last.val = \h08) =>
          /\ status = "running"
          /\ mem_read(cpu_vram, STACK + last.pre.stack_pointer).v
                = ClearBSetU(last.pre.flags) + 16
          /\ flags = last.pre.flags
          /\ stack_pointer = (last.pre.stack_pointer + 255) % 256
    /\ (last.op = "execute" /\ last.val = \h28) =>
          /\ status = "running"
          /\ stack_pointer = (last.pre.stack_pointer + 1) % 256
          /\ flags = ClearBSetU(mem_read(cpu_vram, STACK + stack_pointer).v)
    /\ (/\ entry.program = <<\h08, \h28>>
        /\ Bit(entry.pre.flags, 4) = 0 /\ Bit(entry.pre.flags, 5) = 1) =>
          /\ flags = entry.pre.flags
          /\ stack_pointer = entry.pre.stack_pointer

\* PHP then PLP ran on P = 0b11100111 at SP = 0x00, where the push wraps SP
C23_Witness ==
    /\ entry.program = <<\h08, \h28>>
    /\ entry.pre.flags = \b11100111 /\ entry.pre.stack_pointer = \h00
    /\ flags = \b11100111 /\ stack_pointer = \h00
    /\ mem_read(cpu_vram, STACK).v = \b11110111

(***************************************************************************)
(* SpecJsrRts: JSR, RTS, NOP and INX in any order.  The program counter    *)
(* is at the operand of a JSR whose opcode is at JsrAddresses.             *)
(***************************************************************************)
\* the second one has its last byte on the next page
JsrAddresses == {PROGRAM_BASE, \h06FE}

JsrTargets == {\h0610, \h8000, \h00FF}

InitJsrRts ==
    /\ overflow_checks \in BOOLEAN
    /\ register_a = \h00 /\ register_x = \h00 /\ register_y = \h00
    /\ stack_pointer \in {\h00, \h01, STACK_RESET}
    /\ flags = INIT_FLAGS
    /\ \E a \in JsrAddresses : program_counter = a + 1
    /\ \E target \in JsrTargets :
          cpu_vram = mem_write_u16(BusNew, program_counter, target).bus
    /\ status = "running"
    /\ setup = {"sp", "pc", "mem"}
    /\ entry = [via |-> "run_with_callback", program |-> <<>>,
                pre |-> Regs(Self)]
    /\ last = [op |-> "new", addr |-> 0, val |-> 0, res |-> 0,
               aux |-> <<0, 0>>, pre |-> Regs(Self)]
    /\ nops = 0
    /\ steps = 0

NextJsrRts ==
    /\ nops < MaxJsrRts
    /\ \E code \in {\h20, \h60, \hEA, \hE8} : ExecLogged(code, "NoneAddressing")

SpecJsrRts == InitJsrRts /\ [][NextJsrRts]_vars

ModeCases ==
    {<<\hA9, "Immediate">>, <<\hA5, "ZeroPage">>, <<\hB5, "ZeroPageX">>,
     <<\hB6, "ZeroPageY">>, <<\hAD, "Absolute">>, <<\hBD, "AbsoluteX">>,
     <<\hB9, "AbsoluteY">>, <<\hA1, "IndirectX">>, <<\hB1, "IndirectY">>}

ModeOperands == {\h00, \h10, \h80, \hFE, \hFF}

ModeHighBytes == {\h00, \h06, \hFF}

\* <<register_x, register_y>>
ModeIndexes == {<<\h00, \h01>>, <<\h01, \hFF>>, <<\hFF, \h00>>}

\* mem[0x10] = 0x55 and mem[0xFF] = 0x65 as in test_lda_from_memory; the
\* pointer at 0x80 is 0x0010
ModesMemory(lo, hi) ==
    [i \in DOMAIN BusNew |->
        CASE i = \h10 -> \h55
          [] i = \hFF -> \h65
          [] i = \h80 -> \h10
          [] i = \h81 -> \h00
          [] i < 256 /\ i \notin {\h10, \hFF, \h80, \h81} ->
                ((i * 3) + 1) % 256
          [] i = PROGRAM_BASE + 1 -> lo
          [] i = PROGRAM_BASE + 2 -> hi
          [] OTHER -> \h00]

InitModes ==
    /\ register_a = \h00
    /\ \E r \in ModeIndexes : register_x = r[1] /\ register_y = r[2]
    /\ stack_pointer = STACK_RESET
    /\ flags = INIT_FLAGS
    /\ program_counter = PROGRAM_BASE + 1
    /\ \E lo \in ModeOperands, hi \in ModeHighBytes :
          cpu_vram = ModesMemory(lo, hi)
    /\ overflow_checks \in BOOLEAN
    /\ status = "running"
    /\ setup = {"x", "y", "pc", "mem"}
    /\ entry = [via |-> "run_with_callback", program |-> <<>>,
                pre |-> Regs(Self)]
    /\ last = [op |-> "new", addr |-> 0, val |-> 0, res |-> 0,
               aux |-> <<0, 0>>, pre |-> Regs(Self)]
    /\ nops = 0
    /\ steps = 0

NextModes ==
    /\ nops < MaxAlu
    /\ \E c \in ModeCases : Exec(c[1], c[2])

SpecModes == InitModes /\ [][NextModes]_vars

read8(a) == mem_read(cpu_vram, a).v

\* the 16-bit pointer in page zero at p, its high byte at (p + 1) mod 256
ZeroPagePointer(p) == (read8((p + 1) % 256) * 256) + read8(p)

\* the address the mode of the opcode `code` resolves to, with the program
\* counter at pc and the index registers x and y
Resolved(code, pc, x, y) ==
    CASE code = \hA9 -> pc
      [] code = \hA5 -> read8(pc)
      [] code = \hB5 -> (read8(pc) + x) % 256
      [] code = \hB6 -> (read8(pc) + y) % 256
      [] code = \hAD -> (read8(pc + 1) * 256) + read8(pc)
      [] code = \hBD -> ((read8(pc + 1) * 256) + read8(pc) + x) % U16
      [] code = \hB9 -> ((read8(pc + 1) * 256) + read8(pc) + y) % U16
      [] code = \hA1 -> ZeroPagePointer((read8(pc) + x) % 256)
      [] code = \hB1 -> (ZeroPagePointer(read8(pc)) + y) % U16

\* C25: the addressing-mode resolver returns Immediate = PC; ZeroPage =
\* read8(PC); ZeroPageX/Y = (read8(PC) + X or Y) mod 256; Absolute =
\* read16(PC); AbsoluteX/Y = (read16(PC) + X or Y) mod 2^16; IndirectX = the
\* pointer at p = (read8(PC) + X) mod 256 with its high byte at (p + 1) mod
\* 256; IndirectY = the pointer at p = read8(PC), high byte at (p + 1) mod
\* 256, plus Y mod 2^16; a load that completes has read its operand there.
C25_AddressingModes ==
    (last.op = "execute" /\ last.val \in {c[1] : c \in ModeCases}) =>
        LET addr == Resolved(last.val, last.pre.program_counter,
                             last.pre.register_x, last.pre.register_y)
        IN  /\ last.addr = addr
            /\ last.val \in {\hA5, \hB5, \hB6} => addr < 256
            \* the resolver never fails; the read of the operand does in the
            \* PPU register range (get_real_address)
            /\ status = "panicked" <=>
                   addr \in PPU_REGISTERS .. PPU_REGISTERS_MIRRORS_END
            /\ status = "running" =>
                   IF last.val = \hB6 THEN register_x = read8(addr)
                   ELSE register_a = read8(addr)

\* LDA $FF ran with mem[0x10] = 0x55 and mem[0xFF] = 0x65 and left A = 0x65
C25_Witness ==
    /\ last.op = "execute" /\ last.val = \hA5
    /\ read8(\h10) = \h55 /\ read8(\hFF) = \h65
    /\ read8(last.pre.program_counter) = \hFF
    /\ register_a = \h65

(***************************************************************************)
(* SpecStatus: any instructions in a row on a Cpu as new or reset leaves   *)
(* it, over a stack page filled with 0x10 (B alone) or with 0xFF.          *)
(***************************************************************************)
\* one opcode of every arm of `match code` that takes an addressing mode
StatusModeArms ==
    {\hA5, \hA6, \hA4, \h65, \hE5, \h25, \h45, \h05, \h46, \h06, \h26, \h66,
     \hE6, \hC6, \hC5, \hC4, \hE4, \h24, \h85, \h86, \h84}

\* and every arm that takes none
StatusPlainArms ==
    {\hAA, \hA8, \hBA, \h8A, \h9A, \h98, \hE8, \hC8, \hCA, \h88, \hD8, \h58,
     \hB8, \h18, \h38, \h78, \hF8, \h48, \h68, \h08, \h28, \h4A, \h0A, \h2A,
     \h6A, \h4C, \h6C, \h20, \h60, \h40, \hD0, \h70, \h50, \h10, \h30, \hF0,
     \hB0, \h90, \hEA}

\* the byte b in every cell of the stack page, 0x10 as the operand byte and
\* 0xFF in the zero-page cell 0x10
StatusMemory(b) ==
    [i \in DOMAIN BusNew |->
        CASE i \in STACK .. STACK + \hFF -> b
          [] i = PROGRAM_BASE + 1 -> \h10
          [] i = \h10 -> \hFF
          [] OTHER -> \h00]

InitStatus ==
    /\ overflow_checks \in BOOLEAN
    /\ \E b \in {\h10, \hFF}, s \in {CpuNew, reset(CpuNew)} :
          /\ register_a = s.register_a /\ register_x = s.register_x
          /\ register_y = s.register_y /\ stack_pointer = s.stack_pointer
          /\ flags = s.flags
          /\ cpu_vram = StatusMemory(b)
    /\ program_counter = PROGRAM_BASE + 1
    /\ status = "running"
    /\ setup = {"pc", "mem"}
    /\ entry = [via |-> "run_with_callback", program |-> <<>>,
                pre |-> Regs(Self)]
    /\ last = [op |-> "new", addr |-> 0, val |-> 0, res |-> 0,
               aux |-> <<0, 0>>, pre |-> Regs(Self)]
    /\ nops = 0
    /\ steps = 0

\* The arm of `code` runs; last keeps the opcode only.
ExecPlain(code, mode) ==
    /\ status = "running"
    /\ LET s == execute(Self, code, mode)
       IN  /\ Commit(s)
           /\ status' = IF s.panic THEN "panicked" ELSE "running"
    /\ last' = [last EXCEPT !.op = "execute", !.val = code]
    /\ nops' = nops + 1
    /\ UNCHANGED <<overflow_checks, setup, entry, steps>>

NextStatus ==
    /\ nops < MaxStatus
    /\ \/ \E code \in StatusModeArms : ExecPlain(code, "ZeroPage")
       \/ \E code \in StatusPlainArms : ExecPlain(code, "NoneAddressing")

SpecStatus == InitStatus /\ [][NextStatus]_vars

\* C27: in every state reached from construction or reset by any sequence of
\* instructions, PLP and RTI popping any byte included, the status register
\* has bit 4 (B) clear and bit 5 (U) set; B is set only in the byte PHP
\* writes to the stack.
C27_BreakClearUnusedSet ==
    /\ Bit(flags, 4) = 0 /\ Bit(flags, 5) = 1
    /\ (last.op = "execute" /\ last.val = \h08) =>
          /\ Bit(mem_read(cpu_vram, STACK + ((stack_pointer + 1) % 256)).v,
                 4) = 1
          /\ Bit(mem_read(cpu_vram, STACK + ((stack_pointer + 1) % 256)).v,
                 5) = 1

\* RTI popped 0xFF as the status byte and left P = 0b11101111
C27_Witness ==
    /\ last.op = "execute" /\ last.val = \h40
    /\ status = "running"
    /\ mem_read(cpu_vram, STACK + ((stack_pointer + 254) % 256)).v = \hFF
    /\ flags = \b11101111

(***************************************************************************)
(* SpecFrame: one of the instructions that set or clear a single flag, or  *)
(* that touch no flag at all.                                              *)
(***************************************************************************)
InitFrame ==
    /\ \E r \in RegisterSamples :
          /\ register_a = r[1] /\ register_x = r[2]
          /\ register_y = r[3] /\ stack_pointer = r[4]
    /\ flags \in StatusSamples
    /\ program_counter = PROGRAM_BASE + 1
    /\ \E v \in OperandBytes : cpu_vram = InstrMemory(v)
    /\ overflow_checks \in BOOLEAN
    /\ status = "running"
    /\ setup = {"a", "x", "y", "sp", "flags", "pc", "mem"}
    /\ entry = [via |-> "run_with_callback", program |-> <<>>,
                pre |-> Regs(Self)]
    /\ last = [op |-> "new", addr |-> 0, val |-> 0, res |-> 0,
               aux |-> <<0, 0>>, pre |-> Regs(Self)]
    /\ nops = 0
    /\ steps = 0

\* CLC SEC CLI SEI CLV CLD SED
FlagArms == {\h18, \h38, \h58, \h78, \hB8, \hD8, \hF8}

\* STA zp, STX zp, STY zp
StoreArms == {\h85, \h86, \h84}

\* TXS PHA PHP NOP JMP JSR RTS
FramePlainArms == {\h9A, \h48, \h08, \hEA, \h4C, \h20, \h60}

NextFrame ==
    /\ nops < MaxAlu
    /\ \/ \E code \in FlagArms \cup FramePlainArms :
             Exec(code, "NoneAddressing")
       \/ \E code \in StoreArms : Exec(code, "ZeroPage")

SpecFrame == InitFrame /\ [][NextFrame]_vars

\* the status byte p after the flag instruction `code`
OwnBitChanged(code, p) ==
    CASE code = \h18 -> BitAnd(p, \hFF - CARRY)
      [] code = \h38 -> BitOr(p, CARRY)
      [] code = \h58 -> BitAnd(p, \hFF - INTERRUPT_DISABLE)
      [] code = \h78 -> BitOr(p, INTERRUPT_DISABLE)
      [] code = \hB8 -> BitAnd(p, \hFF - OVERFLOW)
      [] code = \hD8 -> BitAnd(p, \hFF - DECIMAL_MODE)
      [] code = \hF8 -> BitOr(p, DECIMAL_MODE)

\* C28: each of CLC, SEC, CLI, SEI, CLV, CLD, SED changes only its own bit of
\* P; STA, STX, STY, TXS, PHA, PHP, NOP, JMP, JSR and RTS leave all eight
\* bits of P as they were; TXS sets SP = X and updates no flag; NOP changes
\* nothing.
C28_FlagFrame ==
    [][ nops' = nops + 1 =>
          /\ last'.val \in FlagArms =>
                /\ status' = "running"
                /\ flags' = OwnBitChanged(last'.val, flags)
                /\ register_a' = register_a /\ register_x' = register_x
                /\ register_y' = register_y
                /\ stack_pointer' = stack_pointer
                /\ cpu_vram' = cpu_vram
          /\ last'.val \in StoreArms \cup FramePlainArms =>
                /\ status' = "running"
                /\ flags' = flags
          /\ last'.val = \h9A =>
                /\ stack_pointer' = register_x
                /\ register_a' = register_a /\ register_x' = register_x
                /\ register_y' = register_y
                /\ program_counter' = program_counter
                /\ cpu_vram' = cpu_vram
          /\ last'.val = \hEA =>
                /\ register_a' = register_a /\ register_x' = register_x
                /\ register_y' = register_y
                /\ stack_pointer' = stack_pointer
                /\ program_counter' = program_counter
                /\ cpu_vram' = cpu_vram ]_vars

\* TXS ran with X = 0x80 on a status byte with Z and N clear, and left both
\* clear
C28_Witness ==
    /\ last.op = "execute" /\ last.val = \h9A
    /\ last.pre.register_x = \h80 /\ last.pre.stack_pointer = \hFF
    /\ last.pre.flags = \b00000000
    /\ stack_pointer = \h80 /\ flags = \b00000000

(***************************************************************************)
(* Spec: a caller constructs a Cpu, presets fields and memory as the tests *)
(* do, loads a program, resets, and runs it; each turn of the loop of      *)
(* run_with_callback is one Step.                                          *)
(***************************************************************************)
SetupOp(name) ==
    [op |-> name, addr |-> 0, val |-> 0, res |-> 0, aux |-> 0,
     pre |-> Regs(CpuNew)]

\* cpu.register_a = v; and likewise the other private fields (mod test)
Preset(field, v) ==
    /\ status = "ready" /\ nops < MaxSetup /\ field \notin setup
    /\ register_a' = IF field = "a" THEN v ELSE register_a
    /\ register_x' = IF field = "x" THEN v ELSE register_x
    /\ register_y' = IF field = "y" THEN v ELSE register_y
    /\ stack_pointer' = IF field = "sp" THEN v ELSE stack_pointer
    /\ flags' = IF field = "flags" THEN v ELSE flags
    /\ setup' = setup \cup {field}
    /\ last' = SetupOp("preset")
    /\ nops' = nops + 1
    /\ UNCHANGED <<program_counter, cpu_vram, overflow_checks, status, entry,
                   steps>>

\* cpu.program_counter = 0x600 (the field is public)
PresetPC ==
    /\ status = "ready" /\ "pc" \notin setup
    /\ program_counter' = PROGRAM_BASE
    /\ setup' = setup \cup {"pc"}
    /\ last' = SetupOp("preset")
    /\ UNCHANGED <<register_a, register_x, register_y, stack_pointer, flags,
                   cpu_vram, overflow_checks, status, entry, nops, steps>>

\* cpu.bus.mem_write(a, v)
Poke(a, v) ==
    /\ status = "ready" /\ nops < MaxSetup /\ "mem" \notin setup
    /\ LET w == mem_write(cpu_vram, a, v)
       IN  /\ cpu_vram' = w.bus
           /\ status' = IF w.panic THEN "panicked" ELSE "ready"
    /\ setup' = setup \cup {"mem"}
    /\ last' = SetupOp("poke")
    /\ nops' = nops + 1
    /\ UNCHANGED <<cpuvars, overflow_checks, entry, steps>>

Load(program) ==
    /\ status = "ready" /\ "load" \notin setup
    /\ LET s == load(Self, program)
       IN  /\ Commit(s)
           /\ status' = IF s.panic THEN "panicked" ELSE "ready"
    /\ setup' = setup \cup {"load"}
    /\ entry' = [entry EXCEPT !.program = program]
    /\ last' = SetupOp("load")
    /\ UNCHANGED <<overflow_checks, nops, steps>>

Reset ==
    /\ status = "ready" /\ "reset" \notin setup
    /\ LET s == reset(Self)
       IN  /\ Commit(s)
           /\ status' = IF s.panic THEN "panicked" ELSE "ready"
    /\ setup' = setup \cup {"reset"}
    /\ last' = Op("reset", 0, 0, 0, 0)
    /\ UNCHANGED <<overflow_checks, entry, nops, steps>>

\* load_and_run(program), up to the first turn of the loop
LoadAndRun(program) ==
    /\ status = "ready" /\ "load" \notin setup
    /\ LET s == load(Self, program)
       IN  /\ Commit(s)
           /\ status' = IF s.panic THEN "panicked" ELSE "running"
    /\ setup' = setup \cup {"load"}
    /\ entry' = [via |-> "load_and_run", program |-> program,
                 pre |-> Regs(Self)]
    /\ last' = SetupOp("load_and_run")
    /\ steps' = 0
    /\ UNCHANGED <<overflow_checks, nops>>

\* run_with_callback(|_| {}) on a Cpu that holds a program
Run ==
    /\ status = "ready" /\ "load" \in setup
    /\ status' = "running"
    /\ entry' = [entry EXCEPT !.via = "run_with_callback", !.pre = Regs(Self)]
    /\ last' = SetupOp("run_with_callback")
    /\ steps' = 0
    /\ UNCHANGED <<cpuvars, cpu_vram, overflow_checks, setup, nops>>

\* the address the instruction at program_counter works on (0 when it has none)
effective_address(s) ==
    LET code == mem_read(s.bus, s.program_counter).v
        s1   == [s EXCEPT !.program_counter = (s.program_counter + 1) % U16]
    IN  IF code \in DOMAIN OPCODES_MAP /\ OPCODES_MAP[code].mode # "NoneAddressing"
            THEN calculate_address(s1, OPCODES_MAP[code].mode).v
        ELSE 0

\* r is step(Self): the Cpu takes its fields, the loop goes on or ends.
\* last: addr the effective address, val the opcode fetched, res the number
\* of times the callback ran, aux what the panic message names.
Turn(r, addr) ==
    /\ Commit(r.s)
    /\ status' = IF r.s.panic THEN "panicked"
                 ELSE IF r.returned THEN "returned" ELSE "running"
    /\ last' = Op("step", addr, r.code, IF r.called THEN 1 ELSE 0, r.report)

Step ==
    /\ status = "running" /\ steps < MaxSteps
    /\ Turn(step(Self), effective_address(Self))
    /\ steps' = steps + 1
    /\ UNCHANGED <<overflow_checks, setup, entry, nops>>

Next ==
    \/ \E f \in {"a", "x", "y", "sp"}, v \in PresetBytes : Preset(f, v)
    \/ \E v \in PresetFlags : Preset("flags", v)
    \/ PresetPC
    \/ \E a \in PresetCells, v \in PresetBytes : Poke(a, v)
    \/ \E p \in Programs : Load(p)
    \/ Reset
    \/ \E p \in Programs : LoadAndRun(p)
    \/ Run
    \/ Step

Spec == Init /\ [][Next]_vars

(***************************************************************************)
(* SpecTurn: turns of the loop of run_with_callback on a Cpu whose program *)
(* counter and memory the caller has set: at 0x0600 an opcode, then the    *)
(* byte o, then zeros.                                                     *)
(***************************************************************************)
\* the eight branches, BRK, a byte that is no opcode, NOP, LDA #, INX, JMP
TurnCodes ==
    {\h10, \h30, \h50, \h70, \h90, \hB0, \hD0, \hF0,
     \h00, \h02, \hEA, \hA9, \hE8, \h4C}

TurnOperands == {\h00, \h01, \h7F, \h80, \hFE, \hFF}

\* no flag of C, Z, V, N set; all four set
TurnFlags == {INIT_FLAGS, \b11100111}

\* the first opcode is fetched at 0x0600 or, from the device region, at 0xFFFF
TurnCounters == {PROGRAM_BASE, \hFFFF}

InitTurn ==
    /\ overflow_checks \in BOOLEAN
    /\ register_a = \h01 /\ register_x = \hFF /\ register_y = \h80
    /\ stack_pointer = STACK_RESET
    /\ flags \in TurnFlags
    /\ program_counter \in TurnCounters
    /\ \E code \in TurnCodes, o \in TurnOperands :
          cpu_vram = mem_write(mem_write(BusNew, PROGRAM_BASE, code).bus,
                               PROGRAM_BASE + 1, o).bus
    /\ status = "running"
    /\ setup = {"a", "x", "y", "sp", "flags", "pc", "mem"}
    /\ entry = [via |-> "run_with_callback", program |-> <<>>,
                pre |-> Regs(Self)]
    /\ last = [op |-> "new", addr |-> 0, val |-> 0, res |-> 0, aux |-> {},
               pre |-> Regs(Self)]
    /\ nops = 0
    /\ steps = 0

SpecTurn == InitTurn /\ [][Step]_vars

\* a turn of the loop is taken
IsTurn == status = "running" /\ steps' = steps + 1

BranchCodes == {\h10, \h30, \h50, \h70, \h90, \hB0, \hD0, \hF0}

\* the condition of the branch `code` under the flags p
BranchCondition(code, p) ==
    CASE code = \hF0 -> contains(p, ZERO)            \* BEQ
      [] code = \hD0 -> ~contains(p, ZERO)           \* BNE
      [] code = \hB0 -> contains(p, CARRY)           \* BCS
      [] code = \h90 -> ~contains(p, CARRY)          \* BCC
      [] code = \h30 -> contains(p, NEGATIVE)        \* BMI
      [] code = \h10 -> ~contains(p, NEGATIVE)       \* BPL
      [] code = \h70 -> contains(p, OVERFLOW)        \* BVS
      [] code = \h50 -> ~contains(p, OVERFLOW)       \* BVC
      [] OTHER -> FALSE

\* the operand byte o as a signed offset, modulo 2^16
SignExtended(o) == IF o >= \h80 THEN U16 - 256 + o ELSE o

\* C12: for each of BEQ, BNE, BCS, BCC, BMI, BPL, BVS, BVC and every operand
\* byte o, after the whole turn the program counter is (address after the
\* operand + sign-extended o) mod 2^16 when the condition holds and the
\* address after the operand when it does not; no register, flag or memory
\* byte changes.
C12_Branches ==
    [][ (IsTurn /\ last'.val \in BranchCodes) =>
            /\ status' = "running"
            /\ program_counter' =
                  IF BranchCondition(last'.val, flags)
                      THEN (program_counter + 2
                            + SignExtended(mem_read(cpu_vram,
                                             (program_counter + 1) % U16).v))
                           % U16
                  ELSE (program_counter + 2) % U16
            /\ register_a' = register_a /\ register_x' = register_x
            /\ register_y' = register_y /\ stack_pointer' = stack_pointer
            /\ flags' = flags /\ cpu_vram' = cpu_vram ]_vars

\* C13: the callback runs exactly once after every instruction the loop
\* executes, the terminating BRK included, with the program counter already at
\* the next opcode: every turn that fetched an opcode and did not fail has
\* called it.
C13_CallbackEveryTurn ==
    (last.op = "step" /\ status \in {"running", "returned"}) => last.res = 1

\* C14: run_with_callback returns exactly when the fetched opcode is BRK
\* (0x00), never after another opcode, and on BRK it returns with A, X, Y, SP,
\* P and every memory byte as they were.
C14_ReturnsOnBrk ==
    [][ IsTurn =>
            /\ (status' = "returned") <=> (last'.val = \h00)
            /\ last'.val = \h00 =>
                   /\ register_a' = register_a /\ register_x' = register_x
                   /\ register_y' = register_y
                   /\ stack_pointer' = stack_pointer
                   /\ flags' = flags /\ cpu_vram' = cpu_vram ]_vars

\* C15: an opcode byte without a descriptor or without a handler stops the
\* run in a failure that reports the opcode value and the program counter it
\* was fetched at, with A, X, Y, SP, P and memory untouched and the callback
\* not called.
C15_UnknownOpcode ==
    [][ (IsTurn /\ last'.val \notin DOMAIN OPCODES_MAP) =>
            /\ status' = "panicked"
            /\ <<"OpCode", last'.val>> \in last'.aux
            /\ \E e \in last'.aux :
                   e[1] # "OpCode" /\ e[2] = program_counter
            /\ last'.res = 0
            /\ register_a' = register_a /\ register_x' = register_x
            /\ register_y' = register_y /\ stack_pointer' = stack_pointer
            /\ flags' = flags /\ cpu_vram' = cpu_vram ]_vars

\* C16: 16-bit address arithmetic wraps modulo 2^16 and never fails: a read16
\* or write16 at 0xFFFF completes and takes its high byte at 0x0000.
C16_AddressWraps ==
    /\ Happened("mem_read_u16") /\ last.addr = \hFFFF =>
           /\ status # "panicked"
           /\ last.res = mem_read(cpu_vram, \h0000).v * 256
                         + mem_read(cpu_vram, \hFFFF).v
    /\ Happened("mem_write_u16") /\ last.addr = \hFFFF =>
           /\ status # "panicked"
           /\ mem_read(cpu_vram, \h0000).v = last.val \div 256

(***************************************************************************)
(* SpecJump: turns of the loop on a three-byte program at 0x0600: a JMP    *)
(* with one of JmpTargets as its operand, or an opcode that leaves control *)
(* to the loop, followed by the bytes 0x10 0x00.                           *)
(***************************************************************************)
\* the JMP's own opcode and operand addresses, the address after it, others
JmpTargets == {\h0600, \h0601, \h0602, \h0603, \h0610, \h07FF, \h8000, \hFFFF}

\* the opcodes whose handler does not set the program counter
StraightCodes ==
    DOMAIN OPCODES_MAP \ (BranchOps \cup JumpOps \cup {\h00, \h40, \h60})

JumpPrograms ==
    {<<\h4C, t % 256, t \div 256>> : t \in JmpTargets}
        \cup {<<code, \h10, \h00>> : code \in StraightCodes}

InitJump ==
    /\ overflow_checks \in BOOLEAN
    /\ register_a = \h01 /\ register_x = \hFF /\ register_y = \h80
    /\ stack_pointer = STACK_RESET
    /\ flags = INIT_FLAGS
    /\ program_counter = PROGRAM_BASE
    /\ \E program \in JumpPrograms :
          cpu_vram = load_bytes(CpuNew, program, PROGRAM_BASE).bus
    /\ status = "running"
    /\ setup = {"a", "x", "y", "sp", "pc", "mem"}
    /\ entry = [via |-> "run_with_callback", program |-> <<>>,
                pre |-> Regs(Self)]
    /\ last = [op |-> "new", addr |-> 0, val |-> 0, res |-> 0, aux |-> {},
               pre |-> Regs(Self)]
    /\ nops = 0
    /\ steps = 0

SpecJump == InitJump /\ [][Step]_vars

\* C26: after a JMP abs turn the program counter is the 16-bit operand, for
\* every target, the address of the JMP's own operand byte (opcode address
\* + 1) included; after a turn of an instruction that does not redirect
\* control it is the opcode address plus the length of the descriptor.
C26_JmpAndAdvance ==
    [][ IsTurn =>
            /\ last'.val = \h4C =>
                  /\ status' = "running"
                  /\ program_counter' =
                        (mem_read(cpu_vram, (program_counter + 2) % U16).v * 256)
                        + mem_read(cpu_vram, (program_counter + 1) % U16).v
            /\ last'.val \in StraightCodes =>
                  /\ status' = "running"
                  /\ program_counter' =
                        (program_counter + OpcodeLen(last'.val)) % U16 ]_vars

\* C1: on a new Cpu whose program counter the caller did not set,
\* load_and_run([0xA9, v, 0x00]) returns with A = v, Z = (v = 0) and N = bit 7
\* of v, and with A preset to a, load_and_run([0xAA, 0x00]) returns with
\* X = a.
C1_LoadAndRunFresh ==
    (/\ status = "returned" /\ entry.via = "load_and_run"
     /\ setup \subseteq {"a", "load"}) =>
        /\ \A v \in Byte :
              entry.program = <<\hA9, v, \h00>> =>
                  /\ register_a = v
                  /\ contains(flags, ZERO) <=> (v = 0)
                  /\ contains(flags, NEGATIVE) <=> (v >= \h80)
        /\ entry.program = <<\hAA, \h00>> =>
              register_x = entry.pre.register_a

\* C2: after load(program) followed by reset(), the program counter is
\* 0x0600, the reset vector load wrote at 0xFFFC/0xFFFD.
C2_ResetVectorRoundTrip ==
    (last.op = "reset" /\ status = "ready" /\ "load" \in setup) =>
        program_counter = PROGRAM_BASE

\* C3: reset() leaves A = X = Y = 0, SP = 0xFD, P = 0b00100100 and
\* PC = read16(0xFFFC), and changes no byte of bus memory.
C3_Reset ==
    [][ ("reset" \notin setup /\ "reset" \in setup') =>
            /\ status' = "ready"
            /\ register_a' = 0 /\ register_x' = 0 /\ register_y' = 0
            /\ stack_pointer' = \hFD
            /\ flags' = \b00100100
            /\ program_counter' = mem_read_u16(cpu_vram, RESET_VECTOR).v
            /\ cpu_vram' = cpu_vram ]_vars

\* a reset of a Cpu that holds a program and whose Y the caller had set
C3_Witness ==
    /\ last.op = "reset" /\ status = "ready"
    /\ last.pre.register_y = \hFF /\ last.pre.stack_pointer = \h00
    /\ "load" \in setup /\ cpu_vram[PROGRAM_BASE] = \hA9
    /\ register_y = 0 /\ stack_pointer = \hFD /\ flags = \b00100100

====
